---- MODULE Spec2Model ----
(***************************************************************************)
(* Model of the interactive plot engine of the GCSE physics test           *)
(* (Graph.js) together with the Undo handler that TestRunner.js wires to   *)
(* it.                                                                     *)
(*                                                                         *)
(* Numbers.  JavaScript numbers are modelled in fixed point: a data value  *)
(* is an integer count of 1/DataScale data units, an SVG coordinate an     *)
(* integer count of 1/PixelScale user units.  The axis ranges and pointer  *)
(* positions used below make every division of toData exact.              *)
(***************************************************************************)
EXTENDS Integers, Sequences, FiniteSets, TLC

VARIABLES
    mode,           \* this.mode: "view" | "read" | "plot-points"
    placedPoints,   \* this.placedPoints, in insertion order
    crosshairPos,   \* this.crosshairPos, NoPoint for null
    overlay,        \* TRUE iff the last render() attached the overlay rect
    pointEls,       \* the point each rendered "plotted-point" marker closes over
    spec,           \* this.spec, the graph spec given at construction
    onPointsChange, \* TRUE iff an onPointsChange observer is registered
    onValueRead,    \* TRUE iff an onValueRead observer is registered
    additions,      \* history: the store after each append since the last other change
    last,           \* history: the handler that ran last and what it did
    stale,          \* listener-bearing elements of earlier renders still in this.container
    placedLine,     \* the points the "graph-placed-line" path runs through, <<>> for no path
    area,           \* what _renderAreaShading drew for this.spec, NotRendered before it ran
    mapper,         \* a data point and what toPixel, toData and snap made of it
    ctor,           \* progress of Graph.constructor through its first render()
    app,            \* App: this.state, this.mode, this.timerSeconds, this._timerExpired, open dialog
    runner,         \* app.testRunner, NoRunner for null
    timers,         \* the Timer of every TestRunner constructed with timerSeconds > 0
    appLast,        \* history: the App or TestRunner handler that ran last and what it did
    marking,        \* a part, an answer to it and what MarkingEngine made of them
    analytics       \* the analytics module: its state, the provider's, the events so far

vars == <<mode, placedPoints, crosshairPos, overlay, pointEls, spec, onPointsChange,
          onValueRead, additions, last,
                 stale, placedLine, area, mapper, ctor,
                 app, runner, timers, appLast, marking, analytics>>

(* the fields of a plot that the interaction handlers read and write *)
graphVars == <<mode, placedPoints, crosshairPos, overlay, pointEls, onPointsChange,
               onValueRead, additions, last, stale, placedLine>>

(* the test application around the plot: App, TestRunner, Timer, MarkingEngine *)
testVars == <<app, runner, timers, appLast, marking, analytics>>

----------------------------------------------------------------------------
(* Fixed-point scales of the model *)

PixelScale == 10

(* the longest store a click or a touch release may still extend *)
MaxPoints == 3

(* Graph.constructor: SVG dimensions and padding *)
width == 600
height == 400
paddingTop == 24
paddingRight == 24
paddingBottom == 56
paddingLeft == 64
plotWidth == width - paddingLeft - paddingRight
plotHeight == height - paddingTop - paddingBottom

(* 1/DataScale is the resolution of data values; a multiple of plotWidth    *)
(* and of plotHeight                                                       *)
DataScale == 5 * plotWidth

(* _renderInteractiveLayer: the overlay reaches hitPad beyond the plot edges *)
hitPad == 12

(* The graph specs a plot is constructed with.  SpecBrief has the x axis   *)
(* of the build brief and a y axis with a negative minimum; SpecCoarse has *)
(* no x snapStep (0 stands for an absent snapStep, so snap falls back to   *)
(* step) and a y snapStep so fine that the hit margin snaps beyond max.    *)
SpecBrief ==
    [xAxis |-> [min |-> 0, max |-> 50, step |-> 10, snapStep |-> 5],
     yAxis |-> [min |-> -10, max |-> 30, step |-> 10, snapStep |-> 5],
     interactiveMode |-> "none"]
SpecCoarse ==
    [xAxis |-> [min |-> 0, max |-> 50, step |-> 10, snapStep |-> 0],
     yAxis |-> [min |-> -10, max |-> 30, step |-> 10, snapStep |-> 2],
     interactiveMode |-> "plot-points"]
GraphSpecs == {SpecBrief, SpecCoarse}

Modes == {"view", "read", "plot-points"}

(* null *)
NoPoint == [x |-> -99999999, y |-> -99999999]

Pt(dx, dy) == [x |-> dx, y |-> dy]

(* a data point given in whole data units *)
DataPt(ux, uy) == Pt(ux * DataScale, uy * DataScale)

Abs(n) == IF n < 0 THEN -n ELSE n
Min2(a, b) == IF a < b THEN a ELSE b
Max2(a, b) == IF a > b THEN a ELSE b

(* n / d rounded to the nearest integer, halves towards +infinity (d > 0) *)
RoundDiv(n, d) == (2 * n + d) \div (2 * d)

----------------------------------------------------------------------------
(* Coordinate conversion *)

(* toPixel that measures y down from yAxis.min, as it does x *)
toPixelUpright(dataX, dataY) ==
    [x |-> paddingLeft * PixelScale
             + RoundDiv((dataX - spec.xAxis.min * DataScale) * (plotWidth * PixelScale),
                        (spec.xAxis.max - spec.xAxis.min) * DataScale),
     y |-> paddingTop * PixelScale
             + RoundDiv((dataY - spec.yAxis.min * DataScale) * (plotHeight * PixelScale),
                        (spec.yAxis.max - spec.yAxis.min) * DataScale)]

toPixel(dataX, dataY) ==
    [x |-> paddingLeft * PixelScale
             + RoundDiv((dataX - spec.xAxis.min * DataScale) * (plotWidth * PixelScale),
                        (spec.xAxis.max - spec.xAxis.min) * DataScale),
     y |-> paddingTop * PixelScale
             + RoundDiv((spec.yAxis.max * DataScale - dataY) * (plotHeight * PixelScale),
                        (spec.yAxis.max - spec.yAxis.min) * DataScale)]

(* toData that measures y up from yAxis.min, as it does x *)
toDataUnflipped(svgX, svgY) ==
    [x |-> spec.xAxis.min * DataScale
             + RoundDiv((svgX - paddingLeft * PixelScale) * ((spec.xAxis.max - spec.xAxis.min) * DataScale),
                        plotWidth * PixelScale),
     y |-> spec.yAxis.min * DataScale
             + RoundDiv((svgY - paddingTop * PixelScale) * ((spec.yAxis.max - spec.yAxis.min) * DataScale),
                        plotHeight * PixelScale)]

toData(svgX, svgY) ==
    [x |-> spec.xAxis.min * DataScale
             + RoundDiv((svgX - paddingLeft * PixelScale) * ((spec.xAxis.max - spec.xAxis.min) * DataScale),
                        plotWidth * PixelScale),
     y |-> spec.yAxis.max * DataScale
             - RoundDiv((svgY - paddingTop * PixelScale) * ((spec.yAxis.max - spec.yAxis.min) * DataScale),
                        plotHeight * PixelScale)]

(* xAxis.snapStep || xAxis.step *)
snapOf(axis) == (IF axis.snapStep = 0 THEN axis.step ELSE axis.snapStep) * DataScale

(* snap that rounds down to the grid value below *)
snapDown(dataX, dataY) ==
    [x |-> (dataX \div snapOf(spec.xAxis)) * snapOf(spec.xAxis),
     y |-> (dataY \div snapOf(spec.yAxis)) * snapOf(spec.yAxis)]

(* Math.round(v / s) * s *)
snap(dataX, dataY) ==
    [x |-> RoundDiv(dataX, snapOf(spec.xAxis)) * snapOf(spec.xAxis),
     y |-> RoundDiv(dataY, snapOf(spec.yAxis)) * snapOf(spec.yAxis)]

(* clamp with the bounds exchanged: Math.min(min, Math.max(max, v)) *)
clampSwapped(p) ==
    [x |-> Min2(spec.xAxis.min * DataScale, Max2(spec.xAxis.max * DataScale, p.x)),
     y |-> Min2(spec.yAxis.min * DataScale, Max2(spec.yAxis.max * DataScale, p.y))]

(* showCrosshair: Math.max(min, Math.min(max, v)) on each axis *)
clamp(p) ==
    [x |-> Max2(spec.xAxis.min * DataScale, Min2(spec.xAxis.max * DataScale, p.x)),
     y |-> Max2(spec.yAxis.min * DataScale, Min2(spec.yAxis.max * DataScale, p.y))]

(* showCrosshair without the clamp to the axis range *)
showCrosshairUnclamped(svgX, svgY) ==
    LET data == toData(svgX, svgY)
    IN  snap(data.x, data.y)

(* showCrosshair: the value it assigns to this.crosshairPos *)
showCrosshair(svgX, svgY) ==
    LET data == toData(svgX, svgY)
    IN  clamp(snap(data.x, data.y))

----------------------------------------------------------------------------
(* The placed-point store *)

(* Math.abs(a - b) < 0.01 *)
toleranceInv == 100
near(a, b) == Abs(a - b) * toleranceInv < DataScale

(* _removePoint: this.placedPoints.filter(...) *)
removePoint(store, pt) ==
    SelectSeq(store, LAMBDA p : ~(near(p.x, pt.x) /\ near(p.y, pt.y)))

(* this.placedPoints.find(p => p.x === c.x && p.y === c.y), NoPoint for undefined *)
find(store, c) ==
    LET hits == {i \in 1..Len(store) : store[i].x = c.x /\ store[i].y = c.y}
    IN  IF hits = {} THEN NoPoint
        ELSE store[CHOOSE i \in hits : \A j \in hits : i <= j]

(* pop written as shift: drops the oldest point instead of the newest *)
popOldest(store) == SubSeq(store, 2, Len(store))

(* this.placedPoints.pop() *)
pop(store) == SubSeq(store, 1, Len(store) - 1)

(* sorted with p put behind every element whose x is not greater *)
RECURSIVE insertByX(_, _)
insertByX(sorted, p) ==
    IF sorted = <<>> THEN <<p>>
    ELSE IF Head(sorted).x <= p.x THEN <<Head(sorted)>> \o insertByX(Tail(sorted), p)
    ELSE <<p>> \o sorted

(* list.sort((a, b) => a.x - b.x), a stable sort *)
RECURSIVE sortByX(_)
sortByX(list) ==
    IF list = <<>> THEN <<>>
    ELSE insertByX(sortByX(SubSeq(list, 1, Len(list) - 1)), list[Len(list)])

(* _refreshPlacedLine that sorts this.placedPoints itself *)
refreshPlacedLineInPlace(store) ==
    [store |-> IF Len(store) < 2 THEN store ELSE sortByX(store),
     line |-> IF Len(store) < 2 THEN <<>> ELSE sortByX(store)]

(* _refreshPlacedLine: the store it leaves and the points of the dashed    *)
(* path it draws, none for fewer than 2 points                             *)
refreshPlacedLine(store) ==
    [store |-> store,
     line |-> IF Len(store) < 2 THEN <<>> ELSE sortByX(store)]

(* getPlacedPoints: [...this.placedPoints] *)
getPlacedPoints(store) == [i \in 1..Len(store) |-> store[i]]

(* Observer calls, in the order they are made *)
PointsChange(list) == [cb |-> "onPointsChange", list |-> list, pt |-> NoPoint]
ValueRead(p) == [cb |-> "onValueRead", list |-> <<>>, pt |-> p]

(* if (this.onPointsChange) this.onPointsChange(this.placedPoints) *)
notifyPoints(registered, list) == IF registered THEN <<PointsChange(list)>> ELSE <<>>

(* if (this.onValueRead) this.onValueRead(this.crosshairPos) *)
notifyValue(registered, p) == IF registered THEN <<ValueRead(p)>> ELSE <<>>

(* What a handler did: the store it leaves, the observer calls it made,    *)
(* the point it handed to _removePoint, whether it appended, and whether   *)
(* it called _refreshPlacedPoints.                                         *)
Effect(store, out, removed, added, refresh) ==
    [store |-> store, out |-> out, removed |-> removed, added |-> added,
     refresh |-> refresh]

(* the body of the overlay's click listener *)
clickCommit(store, cross, m, obsPoints, obsValue) ==
    IF cross = NoPoint THEN Effect(store, <<>>, NoPoint, FALSE, FALSE)
    ELSE IF m = "plot-points" THEN
        LET existing == find(store, cross)
        IN  IF existing # NoPoint
            THEN Effect(removePoint(store, existing),
                        notifyPoints(obsPoints, removePoint(store, existing)),
                        existing, FALSE, TRUE)
            ELSE Effect(Append(store, cross),
                        notifyPoints(obsPoints, Append(store, cross)),
                        NoPoint, TRUE, TRUE)
    ELSE IF m = "read" THEN Effect(store, notifyValue(obsValue, cross), NoPoint, FALSE, FALSE)
    ELSE Effect(store, <<>>, NoPoint, FALSE, FALSE)

(* the body of the overlay's touchend listener, before hideCrosshair() *)
touchendCommit(store, cross, m, obsPoints, obsValue) ==
    IF cross = NoPoint THEN Effect(store, <<>>, NoPoint, FALSE, FALSE)
    ELSE IF m = "plot-points" THEN
        LET existing == find(store, cross)
        IN  IF existing = NoPoint
            THEN Effect(Append(store, cross),
                        notifyPoints(obsPoints, Append(store, cross)),
                        NoPoint, TRUE, TRUE)
            ELSE Effect(store, <<>>, NoPoint, FALSE, FALSE)
    ELSE IF m = "read" THEN Effect(store, notifyValue(obsValue, cross), NoPoint, FALSE, FALSE)
    ELSE Effect(store, <<>>, NoPoint, FALSE, FALSE)

(* this.mode = graphSpec.interactiveMode || options.mode || 'view' *)
constructorMode(interactiveMode, optionsMode) ==
    IF interactiveMode # "none" THEN interactiveMode
    ELSE IF optionsMode # "none" THEN optionsMode
    ELSE "view"

(* area before _renderAreaShading ran, mapper before a point was converted, *)
(* ctor once the constructor has returned                                  *)
NotRendered == [rendered |-> FALSE, threw |-> FALSE, ranges |-> <<>>]
NotMapped == [stage |-> "idle", p |-> NoPoint, first |-> NoPoint, second |-> NoPoint]
Constructed == [pc |-> "returned", v |-> 0, n |-> 0]

(* App.constructor: state 'welcome', mode 'practice', timerSeconds 0,      *)
(* _timerExpired false; no confirm dialog is open                          *)
AppConstructed ==
    [state |-> "welcome", mode |-> "practice", timerSeconds |-> 0,
     timerExpired |-> FALSE, dialog |-> "none"]

(* app.testRunner = null *)
NoRunner ==
    [mode |-> "none", currentIndex |-> 0, answers |-> {}, flags |-> {},
     feedback |-> {}, checkedParts |-> {}, timer |-> 0]

(* marking before a part was marked *)
NotMarked == [stage |-> "idle"]

(* the analytics module before it is imported *)
NotLoaded == [initialized |-> FALSE]

(* the application after App.constructor, before a test was started *)
NoTest ==
    /\ app = AppConstructed
    /\ runner = NoRunner
    /\ timers = <<>>
    /\ analytics = NotLoaded
    /\ appLast = [ev |-> "constructor", from |-> "welcome", entered |-> FALSE,
                  did |-> "none", timer |-> 0, checkedHere |-> FALSE]
    /\ marking = NotMarked

----------------------------------------------------------------------------
(* Inputs *)

(* Pointer positions in SVG user units times PixelScale: two inside the    *)
(* plot rectangle, one in the hit margin beyond its top right corner, one  *)
(* left of the overlay.                                                    *)
Positions == {Pt(1200, 2200), Pt(1650, 2650), Pt(5870, 130), Pt(300, 300)}

(* the overlay rect: the plot rectangle extended by hitPad on every side *)
onOverlay(s) ==
    /\ s.x >= (paddingLeft - hitPad) * PixelScale
    /\ s.x <= (paddingLeft + plotWidth + hitPad) * PixelScale
    /\ s.y >= (paddingTop - hitPad) * PixelScale
    /\ s.y <= (paddingTop + plotHeight + hitPad) * PixelScale

(* Lists handed to setPlacedPoints: a grid point; a point 10/DataScale off *)
(* a grid point followed by a grid point; a list holding a point twice;    *)
(* a point beyond the x axis.                                              *)
RestoreLists ==
    { <<DataPt(5, 5)>>,
      <<Pt(5 * DataScale + 10, 5 * DataScale), DataPt(10, 0)>>,
      <<DataPt(10, 0), DataPt(5, 5), DataPt(10, 0)>>,
      <<DataPt(60, 5)>> }

----------------------------------------------------------------------------
(* History *)

(* ev: the handler; mode: this.mode when it started; at: the crosshair     *)
(* position a click or a touch release found; out: its observer calls.     *)
Handler(ev, eff) ==
    [ev |-> ev, mode |-> mode,
     at |-> IF ev \in {"click", "touchend"} THEN crosshairPos ELSE NoPoint,
     out |-> eff.out, removed |-> eff.removed, added |-> eff.added]

NoEffect == Effect(placedPoints, <<>>, NoPoint, FALSE, FALSE)

Record(ev, eff) ==
    /\ last' = Handler(ev, eff)
    /\ additions' =
         IF eff.added THEN Append(additions, eff.store)
         ELSE IF ev = "undo" /\ Len(additions) >= 2
              THEN SubSeq(additions, 1, Len(additions) - 1)
         ELSE IF eff.refresh THEN <<eff.store>>
         ELSE additions

----------------------------------------------------------------------------
(* State after construction: Graph.constructor, ending in render() *)

(* the interactive state the constructor sets up, given this.mode *)
FreshGraph ==
    /\ placedPoints = <<>>
    /\ crosshairPos = NoPoint
    /\ onPointsChange = TRUE
    /\ onValueRead = TRUE
    /\ overlay = (mode # "view")
    /\ pointEls = <<>>
    /\ additions = << <<>> >>
    /\ last = [ev |-> "constructor", mode |-> mode, at |-> NoPoint,
               out |-> <<>>, removed |-> NoPoint, added |-> FALSE]
    /\ stale = {}
    /\ placedLine = <<>>

Init ==
    /\ spec \in GraphSpecs
    /\ \E optionsMode \in Modes \cup {"none"} :
         mode = constructorMode(spec.interactiveMode, optionsMode)
    /\ FreshGraph
    /\ NoTest
    /\ area = NotRendered
    /\ mapper = NotMapped
    /\ ctor = Constructed

(* the elements in this.container that carry listeners: the overlay rect    *)
(* and the plotted-point markers of the latest render                      *)
listening ==
    (IF overlay THEN {"overlay"} ELSE {})
        \cup (IF pointEls # <<>> THEN {"plotted-point"} ELSE {})

(* render: this.container.innerHTML = '' detaches every element in it *)
clearContainer(els) == {}

(* a handler's effect on the store and on the rendered markers *)
Apply(eff) ==
    LET drawn == refreshPlacedLine(eff.store)
    IN  /\ placedPoints' = IF eff.refresh THEN drawn.store ELSE eff.store
        /\ pointEls' = IF eff.refresh THEN eff.store ELSE pointEls
        /\ placedLine' = IF eff.refresh THEN drawn.line ELSE placedLine

(* overlay 'mousemove' listener *)
MouseMove(s) ==
    /\ overlay
    /\ onOverlay(s)
    /\ crosshairPos' = showCrosshair(s.x, s.y)
    /\ Record("mousemove", NoEffect)
    /\ UNCHANGED <<mode, placedPoints, overlay, pointEls, spec, onPointsChange, onValueRead,
                 stale, placedLine, area, mapper, ctor, testVars>>

(* overlay 'mouseleave' listener: hideCrosshair *)
MouseLeave ==
    /\ overlay
    /\ crosshairPos' = NoPoint
    /\ Record("mouseleave", NoEffect)
    /\ UNCHANGED <<mode, placedPoints, overlay, pointEls, spec, onPointsChange, onValueRead,
                 stale, placedLine, area, mapper, ctor, testVars>>

(* overlay 'click' listener *)
Click ==
    /\ overlay
    /\ LET eff == clickCommit(placedPoints, crosshairPos, mode, onPointsChange, onValueRead)
       IN  /\ Len(eff.store) <= MaxPoints
           /\ Apply(eff)
           /\ Record("click", eff)
    /\ UNCHANGED <<mode, crosshairPos, overlay, spec, onPointsChange, onValueRead,
                 stale, area, mapper, ctor, testVars>>

(* 'click' listener of the i-th plotted-point marker (_addPointElement) *)
PointClick(i) ==
    /\ i \in 1..Len(pointEls)
    /\ LET pt == pointEls[i]
           eff == Effect(removePoint(placedPoints, pt),
                         notifyPoints(onPointsChange, removePoint(placedPoints, pt)),
                         pt, FALSE, TRUE)
       IN  /\ Apply(eff)
           /\ Record("pointclick", eff)
    /\ UNCHANGED <<mode, crosshairPos, overlay, spec, onPointsChange, onValueRead,
                 stale, area, mapper, ctor, testVars>>

(* overlay 'touchmove' listener *)
TouchMove(s) ==
    /\ overlay
    /\ onOverlay(s)
    /\ crosshairPos' = showCrosshair(s.x, s.y)
    /\ Record("touchmove", NoEffect)
    /\ UNCHANGED <<mode, placedPoints, overlay, pointEls, spec, onPointsChange, onValueRead,
                 stale, placedLine, area, mapper, ctor, testVars>>

(* overlay 'touchend' listener *)
TouchEnd ==
    /\ overlay
    /\ LET eff == touchendCommit(placedPoints, crosshairPos, mode, onPointsChange, onValueRead)
       IN  /\ Len(eff.store) <= MaxPoints
           /\ Apply(eff)
           /\ Record("touchend", eff)
    /\ crosshairPos' = NoPoint
    /\ UNCHANGED <<mode, overlay, spec, onPointsChange, onValueRead,
                 stale, area, mapper, ctor, testVars>>

(* Graph.render: rebuilds the overlay and the markers *)
Render ==
    /\ stale' = clearContainer(stale \cup listening)
    /\ overlay' = (mode # "view")
    /\ pointEls' = placedPoints
    /\ placedLine' = <<>>
    /\ Record("render", NoEffect)
    /\ UNCHANGED <<mode, placedPoints, crosshairPos, spec, onPointsChange, onValueRead,
                 area, mapper, ctor, testVars>>

(* setMode that also resets the interactive state of the constructor *)
SetModeResetting(m) ==
    /\ mode' = m
    /\ stale' = clearContainer(stale \cup listening)
    /\ overlay' = (m # "view")
    /\ LET eff == Effect(<<>>, <<>>, NoPoint, FALSE, TRUE)
       IN  /\ Apply(eff)
           /\ Record("setMode", eff)
    /\ UNCHANGED <<crosshairPos, spec, onPointsChange, onValueRead,
                 area, mapper, ctor, testVars>>

(* Graph.setMode *)
SetMode(m) ==
    /\ mode' = m
    /\ stale' = clearContainer(stale \cup listening)
    /\ overlay' = (m # "view")
    /\ pointEls' = placedPoints
    /\ placedLine' = <<>>
    /\ Record("setMode", NoEffect)
    /\ UNCHANGED <<placedPoints, crosshairPos, spec, onPointsChange, onValueRead,
                 area, mapper, ctor, testVars>>

(* Graph.setPlacedPoints *)
SetPlacedPoints(points) ==
    /\ LET eff == Effect(points, <<>>, NoPoint, FALSE, TRUE)
       IN  /\ Apply(eff)
           /\ Record("setPlacedPoints", eff)
    /\ UNCHANGED <<mode, crosshairPos, overlay, spec, onPointsChange, onValueRead,
                 stale, area, mapper, ctor, testVars>>

(* Graph.clearPlacedPoints *)
ClearPlacedPoints ==
    /\ LET eff == Effect(<<>>, notifyPoints(onPointsChange, <<>>), NoPoint, FALSE, TRUE)
       IN  /\ Apply(eff)
           /\ Record("clearPlacedPoints", eff)
    /\ UNCHANGED <<mode, crosshairPos, overlay, spec, onPointsChange, onValueRead,
                 stale, area, mapper, ctor, testVars>>

(* TestRunner: 'click' listener of the Undo button *)
Undo ==
    /\ LET eff == IF Len(placedPoints) > 0
                  THEN Effect(pop(placedPoints),
                              notifyPoints(onPointsChange, pop(placedPoints)),
                              NoPoint, FALSE, TRUE)
                  ELSE NoEffect
       IN  /\ Apply(eff)
           /\ Record("undo", eff)
    /\ UNCHANGED <<mode, crosshairPos, overlay, spec, onPointsChange, onValueRead,
                 stale, area, mapper, ctor, testVars>>

Next ==
    \/ \E s \in Positions : MouseMove(s)
    \/ MouseLeave
    \/ Click
    \/ \E i \in 1..MaxPoints : PointClick(i)
    \/ \E s \in Positions : TouchMove(s)
    \/ TouchEnd
    \/ Render
    \/ \E m \in Modes : SetMode(m)
    \/ \E points \in RestoreLists : SetPlacedPoints(points)
    \/ ClearPlacedPoints
    \/ Undo

Spec == Init /\ [][Next]_vars

----------------------------------------------------------------------------
(* Properties *)

PlotEvents == {"mousemove", "mouseleave", "click", "pointclick", "touchmove", "touchend"}

(* the store before the latest append recorded in additions *)
BeforeLastAddition == additions[Len(additions) - 1]

(* the last handler was a click in plot mode that appended its crosshair point *)
JustPlaced ==
    /\ last.ev = "click"
    /\ last.added
    /\ last.mode = "plot-points"
    /\ mode = "plot-points"
    /\ crosshairPos = last.at

(* the next handler is a second click at the location of the last one: on  *)
(* the overlay with the crosshair where it was, or on the marker just      *)
(* drawn there                                                             *)
ClickedAgain ==
    \/ last'.ev = "click" /\ last'.at = last.at
    \/ last'.ev = "pointclick" /\ last'.removed = last.at

(* C1: in plot mode, a click at a location L that is not in the store,     *)
(* followed by a second click at the same location, leaves the store with  *)
(* exactly its prior contents in the prior order.                          *)
C1_ToggleRestoresStore ==
    [][(JustPlaced /\ ClickedAgain) => placedPoints' = BeforeLastAddition]_vars

(* C2: in plot mode every primary activation (click or touch release at a  *)
(* crosshair position) fires onPointsChange exactly once with the updated  *)
(* list; on an empty store a click at (5,5) fires it with <<(5,5)>> and a  *)
(* second click there fires it with the empty list and leaves the store    *)
(* empty.                                                                  *)
C2_ActivationNotifiesOnce ==
    [][/\ (mode = "plot-points" /\ crosshairPos # NoPoint
              /\ last'.ev \in {"click", "touchend"})
          => last'.out = <<PointsChange(placedPoints')>>
       /\ (mode = "plot-points" /\ placedPoints = <<>> /\ crosshairPos = DataPt(5, 5)
              /\ last'.ev = "click")
          => last'.out = <<PointsChange(<<DataPt(5, 5)>>)>>
       /\ (JustPlaced /\ BeforeLastAddition = <<>> /\ last'.ev = "click")
          => (placedPoints' = <<>> /\ last'.out = <<PointsChange(<<>>)>>)]_vars

(* C3: a touch release commits as a click at the same crosshair position   *)
(* does: the store and the observer calls after it are those of the click. *)
C3_TouchCommitsAsClick ==
    [][last'.ev = "touchend"
       => LET click == clickCommit(placedPoints, crosshairPos, mode,
                                   onPointsChange, onValueRead)
          IN  placedPoints' = click.store /\ last'.out = click.out]_vars

(* C4: while the mode is view no pointer or touch event on the plot        *)
(* changes the crosshair position or the store, and none calls an observer.*)
C4_ViewIsInert ==
    [][(mode = "view" /\ last'.ev \in PlotEvents)
       => (crosshairPos' = crosshairPos /\ placedPoints' = placedPoints
           /\ last'.out = <<>>)]_vars

(* C5: in read mode a click or touch release at a crosshair position calls *)
(* onValueRead once with that position, and no pointer or touch activation *)
(* changes the store, calls onPointsChange or changes the mode.            *)
C5_ReadOnlyEmits ==
    [][(mode = "read" /\ last'.ev \in {"click", "touchend", "pointclick"})
       => /\ placedPoints' = placedPoints
          /\ mode' = mode
          /\ \A i \in 1..Len(last'.out) : last'.out[i].cb # "onPointsChange"
          /\ (last'.ev # "pointclick" /\ crosshairPos # NoPoint)
             => last'.out = <<ValueRead(crosshairPos)>>]_vars

(* C6: undo after N >= 1 additions leaves the store as it was after the    *)
(* first N-1 of them, whatever the crosshair position.                     *)
C6_UndoRestoresPrevious ==
    [][(last'.ev = "undo" /\ Len(additions) >= 2)
       => placedPoints' = BeforeLastAddition]_vars

(* C6 witness: the second of two additions was undone while the crosshair  *)
(* was over the first point, which stayed.                                 *)
C6_Witness ==
    /\ last.ev = "undo"
    /\ Len(additions) >= 2
    /\ last.out = <<PointsChange(placedPoints)>>
    /\ placedPoints # <<>>
    /\ crosshairPos = placedPoints[1]

(* store without its first element exactly equal to p *)
RECURSIVE removeFirstEqual(_, _)
removeFirstEqual(store, p) ==
    IF store = <<>> THEN <<>>
    ELSE IF Head(store) = p THEN Tail(store)
    ELSE <<Head(store)>> \o removeFirstEqual(Tail(store), p)

(* C7: removing a point p removes only the first element exactly equal to  *)
(* p; a later duplicate and every point that differs from p stay, in order.*)
C7_RemovesOnlyFirstEqual ==
    [][last'.removed # NoPoint
       => placedPoints' = removeFirstEqual(placedPoints, last'.removed)]_vars

(* C8: every operation that changes the store calls onPointsChange exactly *)
(* once, before it returns, with the updated store.                        *)
C8_EveryChangeNotifies ==
    [][placedPoints' # placedPoints
       => last'.out = <<PointsChange(placedPoints')>>]_vars

(* C9: every element of the store is the output of snap then clamp: within *)
(* [min, max] on both axes and unchanged by snap then clamp.               *)
C9_StoreIsSnappedAndClamped ==
    \A i \in 1..Len(placedPoints) :
        LET p == placedPoints[i]
        IN  /\ p.x >= spec.xAxis.min * DataScale /\ p.x <= spec.xAxis.max * DataScale
            /\ p.y >= spec.yAxis.min * DataScale /\ p.y <= spec.yAxis.max * DataScale
            /\ clamp(snap(p.x, p.y)) = p

(* C10: the mode changes only in setMode, and setMode leaves the store     *)
(* unchanged and calls no observer.                                        *)
C10_ModeChangesOnlyInSetMode ==
    [][/\ mode' # mode => last'.ev = "setMode"
       /\ last'.ev = "setMode" => (placedPoints' = placedPoints /\ last'.out = <<>>)]_vars

(* C10 witness: setMode changed the mode of a plot that holds points.      *)
C10_Witness ==
    /\ last.ev = "setMode"
    /\ last.mode # mode
    /\ placedPoints # <<>>

(* C11: after setMode no listener of an earlier render is left in the       *)
(* container, and the pointer or touch event that follows is handled once  *)
(* and only as the new mode prescribes: not at all in view, by emitting    *)
(* the value in read, by changing the store in plot-points.                *)
C11_NoHandlerLeakage ==
    [][/\ last'.ev = "setMode" => stale' = {}
       /\ (last.ev = "setMode" /\ last'.ev \in PlotEvents)
          => /\ stale = {}
             /\ Len(last'.out) <= 1
             /\ mode = "view"
                => (crosshairPos' = crosshairPos /\ placedPoints' = placedPoints
                    /\ last'.out = <<>>)
             /\ mode = "read"
                => (placedPoints' = placedPoints
                    /\ \A i \in 1..Len(last'.out) : last'.out[i].cb = "onValueRead")
             /\ mode = "plot-points"
                => \A i \in 1..Len(last'.out) :
                       last'.out[i] = PointsChange(placedPoints')]_vars

----------------------------------------------------------------------------
(* Area shading: _renderAreaShading, _getPointsInRange, _splitByZero.      *)
(* The lines and shade ranges below make every interpolation exact in      *)
(* units of 1/DataScale.                                                   *)

(* n / d for d # 0, where d divides n *)
Ratio(n, d) == IF d > 0 THEN n \div d ELSE (-n) \div (-d)

(* the boundary point given the y of the segment's start *)
lerpFlat(prev, p, X) == Pt(X, prev.y)

(* the point at x = X on the straight segment from prev to p:              *)
(* t = (X - prev.x) / (p.x - prev.x), y = prev.y + t * (p.y - prev.y)      *)
lerp(prev, p, X) ==
    Pt(X, prev.y + Ratio((X - prev.x) * (p.y - prev.y), p.x - prev.x))

(* the loop of _getPointsInRange from index i on; result holds what the    *)
(* earlier iterations pushed and unshifted                                 *)
RECURSIVE scanPoints(_, _, _, _, _)
scanPoints(points, i, fromX, toX, result) ==
    IF i > Len(points) THEN result
    ELSE LET p == points[i]
             pushed == IF p.x >= fromX /\ p.x <= toX THEN Append(result, p) ELSE result
             atFrom == IF i > 1 /\ points[i - 1].x < fromX /\ p.x > fromX
                       THEN <<lerp(points[i - 1], p, fromX)>> \o pushed
                       ELSE pushed
             atTo == IF i > 1 /\ points[i - 1].x < toX /\ p.x > toX
                     THEN Append(atFrom, lerp(points[i - 1], p, toX))
                     ELSE atFrom
         IN  scanPoints(points, i + 1, fromX, toX, atTo)

(* _getPointsInRange *)
getPointsInRange(points, fromX, toX) == sortByX(scanPoints(points, 1, fromX, toX, <<>>))

(* the test for a crossing from above only *)
crossesDownward(prev, curr) == prev.y >= 0 /\ curr.y < 0

(* _splitByZero: the test "line crosses zero" between two neighbours *)
crosses(prev, curr) == (prev.y >= 0 /\ curr.y < 0) \/ (prev.y < 0 /\ curr.y >= 0)

(* the crossing point taken half way between the neighbours *)
crossMiddle(prev, curr) == Pt((prev.x + curr.x) \div 2, 0)

(* _splitByZero: t = prev.y / (prev.y - curr.y),                           *)
(* crossX = prev.x + t * (curr.x - prev.x)                                 *)
crossPoint(prev, curr) ==
    Pt(prev.x + Ratio(prev.y * (curr.x - prev.x), prev.y - curr.y), 0)

(* the loop of _splitByZero from index i on *)
RECURSIVE splitFrom(_, _, _, _)
splitFrom(points, i, segments, current) ==
    IF i > Len(points) THEN Append(segments, current)
    ELSE LET prev == points[i - 1]
             curr == points[i]
         IN  IF crosses(prev, curr)
             THEN splitFrom(points, i + 1,
                            Append(segments, Append(current, crossPoint(prev, curr))),
                            <<crossPoint(prev, curr), curr>>)
             ELSE splitFrom(points, i + 1, segments, Append(current, curr))

(* _splitByZero *)
splitByZero(points) ==
    IF Len(points) < 2 THEN <<points>>
    ELSE splitFrom(points, 2, <<>>, <<points[1]>>)

(* the path drawn for one segment: isPositive = seg[0].y >= 0 chooses the  *)
(* fill; the outline is the segment, closed along the zero baseline        *)
region(seg) == [positive |-> seg # <<>> /\ seg[1].y >= 0, path |-> seg]

(* the test of the guard with the limit 1: a single point is shaded *)
tooFewBelowOne(relevantPoints) == Len(relevantPoints) < 1

(* if (relevantPoints.length < 2) continue *)
tooFew(relevantPoints) == Len(relevantPoints) < 2

(* one iteration of the loop over this.spec.areaShading *)
shadeRange(points, shade) ==
    LET relevantPoints == getPointsInRange(points, shade.fromX, shade.toX)
        segments == splitByZero(relevantPoints)
    IN  IF tooFew(relevantPoints)
        THEN [relevant |-> relevantPoints, segments |-> <<>>, regions |-> <<>>]
        ELSE [relevant |-> relevantPoints, segments |-> segments,
              regions |-> [j \in 1..Len(segments) |-> region(segments[j])]]

(* _renderAreaShading; an absent areaShading is the empty list.  threw     *)
(* records the TypeError of seg[0].y on an empty segment.                  *)
renderAreaShading(graphSpec) ==
    IF graphSpec.areaShading = <<>> \/ graphSpec.lines = <<>>
    THEN [rendered |-> TRUE, threw |-> FALSE, ranges |-> <<>>]
    ELSE LET ranges == [k \in 1..Len(graphSpec.areaShading) |->
                           shadeRange(graphSpec.lines[1], graphSpec.areaShading[k])]
         IN  [rendered |-> TRUE,
              threw |-> \E k \in 1..Len(ranges) :
                            \E j \in 1..Len(ranges[k].regions) :
                                ranges[k].regions[j].path = <<>>,
              ranges |-> ranges]

(* Primary lines: none and a single point; a rising line; lines crossing   *)
(* zero once, twice and off centre; a line authored from right to left; a  *)
(* line touching zero from below; a line that turns back in x.             *)
ShadeLines ==
    { <<>>,
      <<DataPt(10, 10)>>,
      <<DataPt(0, 0), DataPt(20, 20)>>,
      <<DataPt(0, 10), DataPt(10, -10)>>,
      <<DataPt(0, 10), DataPt(10, -10), DataPt(20, 10)>>,
      <<DataPt(0, 5), DataPt(10, -15)>>,
      <<DataPt(20, 20), DataPt(0, 0)>>,
      <<DataPt(0, -10), DataPt(10, 0), DataPt(20, -10)>>,
      <<DataPt(0, 0), DataPt(20, 20), DataPt(10, -5)>> }

ShadeRange(fromU, toU) == [fromX |-> fromU * DataScale, toX |-> toU * DataScale]

(* Shade ranges: inside, across and beyond the lines' x-domain *)
ShadeRanges ==
    {ShadeRange(0, 10), ShadeRange(5, 15), ShadeRange(0, 20), ShadeRange(10, 20),
     ShadeRange(30, 40)}

(* graph specs with a primary line (or no line at all) and one or two shade ranges *)
ShadeSpecs ==
    { [xAxis |-> SpecBrief.xAxis, yAxis |-> SpecBrief.yAxis, interactiveMode |-> "none",
       lines |-> ls, areaShading |-> sh] :
          ls \in {<<l>> : l \in ShadeLines} \cup {<<>>},
          sh \in {<<a>> : a \in ShadeRanges}
                   \cup {<<a, b>> : a \in ShadeRanges, b \in ShadeRanges} }

(* a plot constructed in view mode from a spec with shading, before render *)
(* reaches _renderAreaShading                                              *)
ShadeInit ==
    /\ spec \in ShadeSpecs
    /\ mode = constructorMode(spec.interactiveMode, "none")
    /\ FreshGraph
    /\ NoTest
    /\ area = NotRendered
    /\ mapper = NotMapped
    /\ ctor = Constructed

(* render: this._renderAreaShading() *)
RenderAreaShading ==
    /\ ~area.rendered
    /\ area' = renderAreaShading(spec)
    /\ UNCHANGED <<graphVars, spec, mapper, ctor, testVars>>

ShadeNext == RenderAreaShading

SpecShade == ShadeInit /\ [][ShadeNext]_vars

(* the primary line and the k-th shade range of this.spec *)
PrimaryLine == spec.lines[1]
Shaded(k) == area.ranges[k]
ShadedRanges == 1..Len(area.ranges)

NonNegative(seg) == \A i \in 1..Len(seg) : seg[i].y >= 0
NonPositive(seg) == \A i \in 1..Len(seg) : seg[i].y <= 0

(* C12: a region is tagged positive exactly when the y values of its       *)
(* segment are all >= 0, and negative when they are all <= 0 with one < 0; *)
(* so the segment after a downward zero crossing is tagged negative.       *)
C12_RegionTaggedBySign ==
    area.rendered =>
        \A k \in ShadedRanges : \A j \in 1..Len(Shaded(k).regions) :
            LET r == Shaded(k).regions[j]
            IN  /\ r.positive <=> NonNegative(r.path)
                /\ (NonPositive(r.path) /\ ~NonNegative(r.path)) => ~r.positive

(* sign changes between neighbours, zero counted as non-negative *)
signChanges(points) ==
    Cardinality({i \in 2..Len(points) : (points[i - 1].y >= 0) # (points[i].y >= 0)})

(* C13: k sign changes between neighbours of the extracted points give     *)
(* exactly k + 1 segments, each entirely non-negative or entirely          *)
(* non-positive, neighbours of opposite sign; two crossings give 3.        *)
C13_SegmentsAlternate ==
    area.rendered =>
        \A k \in ShadedRanges :
            LET segs == Shaded(k).segments
            IN  Len(Shaded(k).relevant) >= 2 =>
                  /\ Len(segs) = signChanges(Shaded(k).relevant) + 1
                  /\ \A j \in 1..Len(segs) : NonNegative(segs[j]) \/ NonPositive(segs[j])
                  /\ \A j \in 1..(Len(segs) - 1) :
                        \/ NonNegative(segs[j]) /\ NonPositive(segs[j + 1])
                        \/ NonPositive(segs[j]) /\ NonNegative(segs[j + 1])

(* C13 witness: a line crossing zero twice inside the range was split into *)
(* three segments, the middle one below zero.                              *)
C13_Witness ==
    /\ area.rendered
    /\ \E k \in ShadedRanges :
          /\ signChanges(Shaded(k).relevant) = 2
          /\ Len(Shaded(k).segments) = 3
          /\ ~NonNegative(Shaded(k).segments[2])

(* a and b lie strictly on opposite sides of y = 0 *)
opposite(a, b) == (a.y > 0 /\ b.y < 0) \/ (a.y < 0 /\ b.y > 0)

(* q lies on the straight line through a and b *)
onSegment(q, a, b) == (q.y - a.y) * (b.x - a.x) = (q.x - a.x) * (b.y - a.y)

(* C14: between two neighbours of opposite sign the split inserts the      *)
(* point where the straight segment between them crosses y = 0, as the     *)
(* last point of the segment it closes and the first of the next; the line *)
(* (0,10),(10,-10) with range [0,10] gives 2 segments meeting at (5,0).    *)
C14_CrossingPointInserted ==
    area.rendered =>
        \A k \in ShadedRanges :
            LET rel == Shaded(k).relevant
                segs == Shaded(k).segments
            IN  Len(rel) >= 2 =>
                  /\ \A i \in 2..Len(rel) :
                        opposite(rel[i - 1], rel[i]) =>
                            \E j \in 1..(Len(segs) - 1) :
                                LET closing == segs[j]
                                    next == segs[j + 1]
                                IN  /\ closing[Len(closing)] = next[1]
                                    /\ closing[Len(closing) - 1] = rel[i - 1]
                                    /\ next[2] = rel[i]
                                    /\ next[1].y = 0
                                    /\ onSegment(next[1], rel[i - 1], rel[i])
                  /\ (PrimaryLine = <<DataPt(0, 10), DataPt(10, -10)>>
                        /\ spec.areaShading[k] = ShadeRange(0, 10))
                     => segs = << <<DataPt(0, 10), DataPt(5, 0)>>,
                                  <<DataPt(5, 0), DataPt(10, -10)>> >>

(* C14 witness: (0,10),(10,-10) was shaded over [0,10] and split at (5,0). *)
C14_Witness ==
    /\ area.rendered
    /\ spec.lines = << <<DataPt(0, 10), DataPt(10, -10)>> >>
    /\ spec.areaShading = <<ShadeRange(0, 10)>>
    /\ Len(Shaded(1).segments) = 2
    /\ Shaded(1).segments[2][1] = DataPt(5, 0)

Ascending(points) == \A i \in 2..Len(points) : points[i - 1].x <= points[i].x

(* how often q occurs in list *)
count(list, q) == Cardinality({i \in 1..Len(list) : list[i] = q})

(* the authored segments that have X strictly inside, by their end index *)
strictlyInside(points, X) ==
    {i \in 2..Len(points) : points[i - 1].x < X /\ X < points[i].x}

(* how often q is due in the extraction of [fromX, toX] from points *)
due(points, fromX, toX, q) ==
    Cardinality({i \in 1..Len(points) :
                    points[i] = q /\ fromX <= q.x /\ q.x <= toX})
    + Cardinality({i \in strictlyInside(points, fromX) :
                      q.x = fromX /\ onSegment(q, points[i - 1], points[i])})
    + Cardinality({i \in strictlyInside(points, toX) :
                      q.x = toX /\ onSegment(q, points[i - 1], points[i])})

(* C15: for an x-ascending line the extraction of [fromX, toX] is, in      *)
(* ascending x order, exactly the authored points in the range plus one    *)
(* interpolated point at each boundary that lies strictly inside an        *)
(* authored segment; (0,0),(20,20) with [5,15] gives (5,5),(15,15).        *)
C15_ExtractionOfAscendingLine ==
    area.rendered =>
        \A k \in ShadedRanges :
            LET rel == Shaded(k).relevant
                fromX == spec.areaShading[k].fromX
                toX == spec.areaShading[k].toX
            IN  Ascending(PrimaryLine) =>
                  /\ Ascending(rel)
                  /\ Len(rel) =
                        Cardinality({i \in 1..Len(PrimaryLine) :
                                        fromX <= PrimaryLine[i].x /\ PrimaryLine[i].x <= toX})
                        + Cardinality(strictlyInside(PrimaryLine, fromX))
                        + Cardinality(strictlyInside(PrimaryLine, toX))
                  /\ \A n \in 1..Len(rel) :
                        count(rel, rel[n]) = due(PrimaryLine, fromX, toX, rel[n])
                  /\ (PrimaryLine = <<DataPt(0, 0), DataPt(20, 20)>>
                        /\ spec.areaShading[k] = ShadeRange(5, 15))
                     => rel = <<DataPt(5, 5), DataPt(15, 15)>>

(* C15 witness: (0,0),(20,20) was extracted over [5,15]. *)
C15_Witness ==
    /\ area.rendered
    /\ spec.lines = << <<DataPt(0, 0), DataPt(20, 20)>> >>
    /\ spec.areaShading = <<ShadeRange(5, 15)>>
    /\ Shaded(1).relevant = <<DataPt(5, 5), DataPt(15, 15)>>

(* X lies strictly between the x of a and the x of b, in either direction *)
straddles(a, b, X) == (a.x < X /\ X < b.x) \/ (b.x < X /\ X < a.x)

(* C16: for every adjacent authored pair that straddles fromX or toX,      *)
(* whether x rises or falls across it, the extraction holds the point of   *)
(* that pair at the boundary, and the extraction is ordered by x.          *)
C16_ExtractionOfAnyOrder ==
    area.rendered =>
        \A k \in ShadedRanges :
            LET rel == Shaded(k).relevant
            IN  /\ Ascending(rel)
                /\ \A i \in 2..Len(PrimaryLine) :
                      \A X \in {spec.areaShading[k].fromX, spec.areaShading[k].toX} :
                          straddles(PrimaryLine[i - 1], PrimaryLine[i], X) =>
                              \E n \in 1..Len(rel) :
                                  /\ rel[n].x = X
                                  /\ onSegment(rel[n], PrimaryLine[i - 1], PrimaryLine[i])

(* the x-domain of the primary line misses [fromX, toX] *)
outsideDomain(points, shade) ==
    \/ \A i \in 1..Len(points) : points[i].x < shade.fromX
    \/ \A i \in 1..Len(points) : points[i].x > shade.toX

(* C17: a shade range with fewer than 2 extracted points (a range outside  *)
(* the line's x-domain, a line of 0 or 1 points) gives no region and no    *)
(* error, and the other shade ranges are still processed.                  *)
C17_ShortRangeGivesNoRegion ==
    area.rendered =>
        /\ ~area.threw
        /\ spec.lines # <<>> => Len(area.ranges) = Len(spec.areaShading)
        /\ \A k \in ShadedRanges :
              /\ Len(Shaded(k).relevant) < 2 => Shaded(k).regions = <<>>
              /\ (Len(PrimaryLine) <= 1 \/ outsideDomain(PrimaryLine, spec.areaShading[k]))
                 => Shaded(k).regions = <<>>
              /\ Len(Shaded(k).relevant) >= 2 => Shaded(k).regions # <<>>

(* C17 witness: the first of two shade ranges lies beyond the line and     *)
(* gave no region, the second was shaded.                                  *)
C17_Witness ==
    /\ area.rendered
    /\ Len(area.ranges) = 2
    /\ outsideDomain(PrimaryLine, spec.areaShading[1])
    /\ Shaded(1).regions = <<>>
    /\ Shaded(2).regions # <<>>

----------------------------------------------------------------------------
(* Construction: Graph.constructor and the loops of its first render().    *)
(* Axis values are whole data units here; every axis states its snapStep.  *)

(* the most iterations one loop of render is followed for *)
MaxIterations == 6

AxisPlain == [min |-> 0, max |-> 4, step |-> 2, snapStep |-> 1]
AxisSigned == [min |-> -2, max |-> 2, step |-> 2, snapStep |-> 2]
AxisZeroStep == [min |-> 0, max |-> 4, step |-> 0, snapStep |-> 1]
AxisZeroSnap == [min |-> 0, max |-> 4, step |-> 2, snapStep |-> 0]
AxisNegativeSnap == [min |-> 0, max |-> 4, step |-> 2, snapStep |-> -1]
AxisReversed == [min |-> 4, max |-> 0, step |-> 2, snapStep |-> 1]
AxisFlat == [min |-> 2, max |-> 2, step |-> 2, snapStep |-> 1]

CtorAxes ==
    {AxisPlain, AxisSigned, AxisZeroStep, AxisZeroSnap, AxisNegativeSnap, AxisReversed,
     AxisFlat}

(* graph specs handed to the constructor, well formed and malformed *)
CtorSpecs ==
    {[xAxis |-> ax, yAxis |-> ay, interactiveMode |-> "none"] :
        ax \in CtorAxes, ay \in CtorAxes}

(* axis.snapStep || axis.step, in whole data units *)
snapStepOf(axis) == IF axis.snapStep = 0 THEN axis.step ELSE axis.snapStep

(* the constructor has stored the spec and set the fields; render() is next *)
CtorInit ==
    /\ spec \in CtorSpecs
    /\ mode = constructorMode(spec.interactiveMode, "none")
    /\ FreshGraph
    /\ NoTest
    /\ area = NotRendered
    /\ mapper = NotMapped
    /\ ctor = [pc |-> "constructor", v |-> 0, n |-> 0]

(* constructor: this.render(), up to the first loop of _renderGridlines *)
CallRender ==
    /\ ctor.pc = "constructor"
    /\ ctor' = [pc |-> "gridlinesX", v |-> spec.xAxis.min, n |-> 0]
    /\ UNCHANGED <<graphVars, spec, area, mapper, testVars>>

(* one pass through for (let v = axis.min; v <= axis.max; v += inc): an    *)
(* iteration, or the exit to the code that follows the loop                *)
loopStep(here, axis, inc, next, nextStart) ==
    /\ ctor.pc = here
    /\ IF ctor.v <= axis.max
       THEN /\ ctor.n < MaxIterations
            /\ ctor' = [ctor EXCEPT !.v = @ + inc, !.n = @ + 1]
       ELSE ctor' = [pc |-> next, v |-> nextStart, n |-> 0]
    /\ UNCHANGED <<graphVars, spec, area, mapper, testVars>>

(* _renderGridlines: for (let x = xAxis.min; x <= xAxis.max; x += snapX) *)
GridlinesX ==
    loopStep("gridlinesX", spec.xAxis, snapStepOf(spec.xAxis), "gridlinesY", spec.yAxis.min)

(* _renderGridlines: for (let y = yAxis.min; y <= yAxis.max; y += snapY) *)
GridlinesY ==
    loopStep("gridlinesY", spec.yAxis, snapStepOf(spec.yAxis), "ticksX", spec.xAxis.min)

(* _renderAxes: for (let x = xAxis.min; x <= xAxis.max; x += xAxis.step) *)
TicksX == loopStep("ticksX", spec.xAxis, spec.xAxis.step, "ticksY", spec.yAxis.min)

(* _renderAxes: for (let y = yAxis.min; y <= yAxis.max; y += yAxis.step) *)
TicksY == loopStep("ticksY", spec.yAxis, spec.yAxis.step, "layers", 0)

(* render: the remaining layers, then this.container.appendChild(wrapper); *)
(* the constructor returns the plot                                        *)
FinishRender ==
    /\ ctor.pc = "layers"
    /\ ctor' = Constructed
    /\ UNCHANGED <<graphVars, spec, area, mapper, testVars>>

CtorNext ==
    \/ CallRender
    \/ GridlinesX
    \/ GridlinesY
    \/ TicksX
    \/ TicksY
    \/ FinishRender

SpecCtor == CtorInit /\ [][CtorNext]_vars

(* an axis with step <= 0, snapStep <= 0 or max <= min *)
MalformedAxis(axis) == axis.step <= 0 \/ axis.snapStep <= 0 \/ axis.max <= axis.min
Malformed(graphSpec) == MalformedAxis(graphSpec.xAxis) \/ MalformedAxis(graphSpec.yAxis)

(* C18: constructing a plot from a malformed spec ends with an error       *)
(* outcome: no render loop is entered and no plot is rendered.             *)
C18_MalformedSpecRejected ==
    Malformed(spec) => ctor.pc \in {"constructor", "rejected"}

----------------------------------------------------------------------------
(* The coordinate mapper on single points: toPixel then toData, snap       *)
(* applied twice, and snap and clamp in either order.                      *)

(* x and y values of the data points converted, in units of 1/DataScale:   *)
(* axis bounds, grid values, values half way between grid values, values   *)
(* off the grid, negative values, values beyond the axis bounds.  All have *)
(* an exact SVG coordinate at 1/PixelScale.                                *)
MapXs == {-6400, 0, 25, 6400, 12800, 12825, 25600, 32000, 128000, 140800}
MapYs == {-38400, -25600, -25568, -6400, -2560, 0, 2560, 7680, 19232, 76800, 89600}

MapPoints == {Pt(dx, dy) : dx \in MapXs, dy \in MapYs}

(* A graph spec whose axis bounds are not multiples of the snap step: the  *)
(* x grid is 0, 20, 40, 60 on [0, 50], the y grid -12, -8, .., 28, 32 on   *)
(* [-10, 30].                                                              *)
SpecOdd ==
    [xAxis |-> [min |-> 0, max |-> 50, step |-> 10, snapStep |-> 20],
     yAxis |-> [min |-> -10, max |-> 30, step |-> 10, snapStep |-> 4],
     interactiveMode |-> "read"]
MapSpecs == GraphSpecs \cup {SpecOdd}

MapInit ==
    /\ spec \in MapSpecs
    /\ \E optionsMode \in Modes \cup {"none"} :
         mode = constructorMode(spec.interactiveMode, optionsMode)
    /\ FreshGraph
    /\ NoTest
    /\ area = NotRendered
    /\ ctor = Constructed
    /\ \E p \in MapPoints :
         mapper = [stage |-> "data", p |-> p, first |-> NoPoint, second |-> NoPoint]

(* toPixel(p.x, p.y) *)
ToPixel ==
    /\ mapper.stage = "data"
    /\ mapper' = [mapper EXCEPT !.stage = "pixel", !.first = toPixel(mapper.p.x, mapper.p.y)]
    /\ UNCHANGED <<graphVars, spec, area, ctor, testVars>>

(* toData of the SVG point toPixel returned *)
ToData ==
    /\ mapper.stage = "pixel"
    /\ mapper' = [mapper EXCEPT !.stage = "back",
                                !.second = toData(mapper.first.x, mapper.first.y)]
    /\ UNCHANGED <<graphVars, spec, area, ctor, testVars>>

(* snap(p.x, p.y) *)
Snap ==
    /\ mapper.stage = "data"
    /\ mapper' = [mapper EXCEPT !.stage = "snapped", !.first = snap(mapper.p.x, mapper.p.y)]
    /\ UNCHANGED <<graphVars, spec, area, ctor, testVars>>

(* snap of the point snap returned *)
SnapAgain ==
    /\ mapper.stage = "snapped"
    /\ mapper' = [mapper EXCEPT !.stage = "resnapped",
                                !.second = snap(mapper.first.x, mapper.first.y)]
    /\ UNCHANGED <<graphVars, spec, area, ctor, testVars>>

(* showCrosshair: the clamp of the point snap returned *)
ClampSnapped ==
    /\ mapper.stage = "snapped"
    /\ mapper' = [mapper EXCEPT !.stage = "snapClamped", !.second = clamp(mapper.first)]
    /\ UNCHANGED <<graphVars, spec, area, ctor, testVars>>

(* clamp(p) *)
Clamp ==
    /\ mapper.stage = "data"
    /\ mapper' = [mapper EXCEPT !.stage = "clamped", !.first = clamp(mapper.p)]
    /\ UNCHANGED <<graphVars, spec, area, ctor, testVars>>

(* snap of the point clamp returned *)
SnapClamped ==
    /\ mapper.stage = "clamped"
    /\ mapper' = [mapper EXCEPT !.stage = "clampSnapped",
                                !.second = snap(mapper.first.x, mapper.first.y)]
    /\ UNCHANGED <<graphVars, spec, area, ctor, testVars>>

(* clamp of the point clamp returned *)
ClampAgain ==
    /\ mapper.stage = "clamped"
    /\ mapper' = [mapper EXCEPT !.stage = "reclamped", !.second = clamp(mapper.first)]
    /\ UNCHANGED <<graphVars, spec, area, ctor, testVars>>

MapNext ==
    \/ ToPixel
    \/ ToData
    \/ Snap
    \/ SnapAgain
    \/ ClampSnapped
    \/ Clamp
    \/ SnapClamped
    \/ ClampAgain

SpecMap == MapInit /\ [][MapNext]_vars

(* p lies within the bounds of both axes *)
withinBounds(p) ==
    /\ spec.xAxis.min * DataScale <= p.x /\ p.x <= spec.xAxis.max * DataScale
    /\ spec.yAxis.min * DataScale <= p.y /\ p.y <= spec.yAxis.max * DataScale

(* |a - b| <= 1e-6; the tolerance is below the resolution 1/DataScale *)
withinTolerance(a, b) == Abs(a - b) <= DataScale \div 1000000

(* C19: for every data point p within the axis bounds toData(toPixel(p))   *)
(* equals p within 1e-6, on both axes, also on an axis with negative min.  *)
C19_RoundTrip ==
    (mapper.stage = "back" /\ withinBounds(mapper.p))
        => /\ withinTolerance(mapper.second.x, mapper.p.x)
           /\ withinTolerance(mapper.second.y, mapper.p.y)

(* C19 witness: a point off the grid with negative y went to SVG           *)
(* coordinates and came back.                                              *)
C19_Witness ==
    /\ mapper.stage = "back"
    /\ withinBounds(mapper.p)
    /\ mapper.p.x = 12825
    /\ mapper.p.y = -25568
    /\ mapper.first # mapper.p
    /\ mapper.second = mapper.p

(* v is the multiple of the axis's snap step nearest to w *)
nearestMultiple(v, w, axis) ==
    /\ v % snapOf(axis) = 0
    /\ 2 * Abs(v - w) <= snapOf(axis)

(* C20: snap(snap(p)) = snap(p) for every data point p, positive, negative *)
(* or half way between two grid values, and each component of snap(p) is   *)
(* the multiple of that axis's snapStep nearest to p.                      *)
C20_SnapIdempotent ==
    /\ mapper.stage \in {"snapped", "resnapped"}
          => /\ nearestMultiple(mapper.first.x, mapper.p.x, spec.xAxis)
             /\ nearestMultiple(mapper.first.y, mapper.p.y, spec.yAxis)
    /\ mapper.stage = "resnapped" => mapper.second = mapper.first

(* C20 witness: a point with negative coordinates half way between grid    *)
(* values was snapped twice.                                               *)
C20_Witness ==
    /\ mapper.stage = "resnapped"
    /\ mapper.p = Pt(-6400, -6400)
    /\ snapOf(spec.xAxis) = 2 * 6400
    /\ mapper.first = Pt(0, 0)
    /\ mapper.second = mapper.first

(* each component of p is a multiple of its axis's snap step *)
onGrid(p) ==
    /\ p.x % snapOf(spec.xAxis) = 0
    /\ p.y % snapOf(spec.yAxis) = 0

(* C21: for every data point p and every valid axis spec, snap then clamp  *)
(* (the order of the move handler) gives the same point as clamp then      *)
(* snap, and that point is within the axis range and on the snap grid.     *)
C21_ClampCommutesWithSnap ==
    /\ mapper.stage = "snapClamped"
          => /\ mapper.second = snap(clamp(mapper.p).x, clamp(mapper.p).y)
             /\ withinBounds(mapper.second)
             /\ onGrid(mapper.second)
    /\ mapper.stage = "clampSnapped"
          => mapper.second = clamp(snap(mapper.p.x, mapper.p.y))

(* C22: clamp(p) = p for every p within [min, max] on both axes, and       *)
(* clamp(clamp(p)) = clamp(p) for every p.                                 *)
C22_ClampIdentityAndIdempotent ==
    /\ (mapper.stage \in {"clamped", "reclamped"} /\ withinBounds(mapper.p))
          => mapper.first = mapper.p
    /\ mapper.stage \in {"clamped", "reclamped"} => withinBounds(mapper.first)
    /\ mapper.stage = "reclamped" => mapper.second = mapper.first

(* C22 witness: a point left of and below the plot was clamped twice.      *)
C22_Witness ==
    /\ mapper.stage = "reclamped"
    /\ mapper.p = Pt(-6400, -38400)
    /\ mapper.first = Pt(spec.xAxis.min * DataScale, spec.yAxis.min * DataScale)
    /\ mapper.second = mapper.first

(* differences between data values, in units of 1/DataScale, by which the  *)
(* linearity of toPixel is tested: the resolution of each axis and five    *)
(* data units                                                              *)
MapStepsX == {25, 12800}
MapStepsY == {32, 12800}

----------------------------------------------------------------------------
(* The crosshair of the interaction overlay *)

(* a pointer or touch move over s, handled by the overlay *)
MovedOver(s) == MouseMove(s) \/ TouchMove(s)

(* C24: after every pointer or touch move handled in read or plot mode,    *)
(* also over the hit margin outside the plot rectangle, the crosshair      *)
(* position is clamp(snap(toData(position))) and lies within [min, max]    *)
(* on both axes; the point a later commit emits or places is exactly that  *)
(* crosshair position.                                                     *)
C24_CrosshairIsClampedSnap ==
    [][ /\ \A s \in Positions :
              MovedOver(s) =>
                  /\ mode \in {"read", "plot-points"}
                  /\ LET data == toData(s.x, s.y)
                     IN  crosshairPos' = clamp(snap(data.x, data.y))
                  /\ withinBounds(crosshairPos')
        /\ (last'.ev \in {"click", "touchend"} /\ last'.at # NoPoint)
              => /\ last'.at = crosshairPos
                 /\ withinBounds(last'.at)
                 /\ last'.added => placedPoints' = Append(placedPoints, crosshairPos)
                 /\ last'.mode = "read"
                       => last'.out = notifyValue(onValueRead, crosshairPos)
                 /\ \A i \in 1..Len(last'.out) :
                       /\ last'.out[i].cb = "onValueRead" => last'.out[i].pt = crosshairPos
                       /\ (last'.out[i].cb = "onPointsChange" /\ last'.added)
                             => last'.out[i].list = Append(placedPoints, crosshairPos)
      ]_vars

(* C24 witness: the pointer moved over the hit margin beyond the top right *)
(* corner, where snap gives a y beyond yAxis.max, and the click that       *)
(* followed placed the clamped crosshair position.                         *)
C24_Witness ==
    /\ last.ev = "click"
    /\ last.added
    /\ last.at = showCrosshair(5870, 130)
    /\ last.at # showCrosshairUnclamped(5870, 130)
    /\ ~withinBounds(toData(5870, 130))
    /\ placedPoints # <<>>
    /\ placedPoints[Len(placedPoints)] = last.at
    /\ last.at = Pt(spec.xAxis.max * DataScale, spec.yAxis.max * DataScale)

----------------------------------------------------------------------------
(* The preview line through the placed points *)

(* line runs through exactly the points of store, by ascending x *)
sortedCopyOf(line, store) ==
    /\ Len(line) = Len(store)
    /\ Ascending(line)
    /\ \A i \in 1..Len(store) : count(line, store[i]) = count(store, store[i])

(* C25: the preview line is recomputed after a store change on a separate  *)
(* copy sorted by x; the store keeps its insertion order: an append puts   *)
(* the point last, undo removes the most recently appended point, a        *)
(* removal keeps the order of the others, and getPlacedPoints returns the  *)
(* points in insertion order.                                              *)
C25_PreviewLineSortsACopy ==
    [][ /\ last'.added => placedPoints' = Append(placedPoints, last'.at)
        /\ (last'.ev = "undo" /\ placedPoints # <<>>)
              => /\ placedPoints' = SubSeq(placedPoints, 1, Len(placedPoints) - 1)
                 /\ Len(additions) >= 2 => placedPoints' = BeforeLastAddition
        /\ last'.removed # NoPoint
              => placedPoints' = removePoint(placedPoints, last'.removed)
        /\ last'.ev = "setPlacedPoints" => placedPoints' \in RestoreLists
        /\ last'.ev \in {"mousemove", "mouseleave", "touchmove", "render", "setMode"}
              => placedPoints' = placedPoints
        /\ getPlacedPoints(placedPoints') = placedPoints'
        /\ placedLine' # <<>> => sortedCopyOf(placedLine', placedPoints')
        /\ (placedPoints' # placedPoints /\ Len(placedPoints') >= 2)
              => sortedCopyOf(placedLine', placedPoints')
      ]_vars

(* C25 witness: three points were placed from right to left and undo took  *)
(* the leftmost, the latest, away: the store holds the other two from      *)
(* right to left and the preview line runs through them from left to       *)
(* right.                                                                  *)
C25_Witness ==
    /\ last.ev = "undo"
    /\ Len(additions) = 3
    /\ Len(placedPoints) = 2
    /\ placedPoints = additions[3]
    /\ placedPoints[1].x > placedPoints[2].x
    /\ placedLine = <<placedPoints[2], placedPoints[1]>>
    /\ getPlacedPoints(placedPoints) = placedPoints

----------------------------------------------------------------------------
(* The test application: App (app.js), TestRunner, Review and Timer.       *)
(* Parts are numbered from 0 as this.currentIndex is.  this.answers of the *)
(* runner is the object App holds as this.answers, so it is kept once, in  *)
(* runner.                                                                 *)

(* parts of the selected scenarios *)
NumParts == 2

(* the timer preset of the Welcome screen other than 0 (untimed), seconds *)
MaxSeconds == 2
TimerPresets == {0, MaxSeconds}

(* TestRunners constructed with a timer over the life of the page *)
MaxRunners == 1

AppModes == {"practice", "exam"}

(* Timer.constructor; of: the mode of the TestRunner that owns it,         *)
(* expired: how often it called onExpire                                   *)
Timer(totalSeconds, m) ==
    [totalSeconds |-> totalSeconds, remaining |-> totalSeconds, running |-> FALSE,
     paused |-> FALSE, expired |-> 0, of |-> m]

(* Timer.start *)
start(t) ==
    IF t.totalSeconds <= 0 \/ t.running THEN t
    ELSE [t EXCEPT !.running = TRUE, !.paused = FALSE]

(* Timer.stop *)
stop(t) == [t EXCEPT !.running = FALSE]

(* pause that leaves the timer as it is *)
pauseIgnored(t) == t

(* Timer.pause *)
pause(t) == [t EXCEPT !.paused = TRUE]

(* Timer.resume *)
resume(t) == [t EXCEPT !.paused = FALSE]

(* the interval callback with remaining < 0 as its test for expiry *)
tickLate(t) ==
    IF t.paused THEN t
    ELSE IF t.remaining - 1 < 0
         THEN [t EXCEPT !.remaining = 0, !.running = FALSE, !.expired = @ + 1]
         ELSE [t EXCEPT !.remaining = @ - 1]

(* the interval callback of Timer.start, up to and including onExpire *)
tick(t) ==
    IF t.paused THEN t
    ELSE IF t.remaining - 1 <= 0
         THEN [t EXCEPT !.remaining = 0, !.running = FALSE, !.expired = @ + 1]
         ELSE [t EXCEPT !.remaining = @ - 1]

(* if (this.timer) this.timer.pause(), .resume() or .stop(); k = 0 for     *)
(* this.timer = null                                                       *)
withTimer(ts, k, call) ==
    IF k = 0 THEN ts
    ELSE [ts EXCEPT ![k] = IF call = "pause" THEN pause(@)
                           ELSE IF call = "resume" THEN resume(@)
                           ELSE stop(@)]

(* TestRunner.constructor followed by goToPart(index) *)
TestRunner(m, answers, flags, index, k) ==
    [mode |-> m, currentIndex |-> index, answers |-> answers, flags |-> flags,
     feedback |-> {}, checkedParts |-> {}, timer |-> k]

(* render: the timers after new Timer(...).start(), made if timerSeconds > 0 *)
withNewTimer(ts, secs, m) == IF secs > 0 THEN Append(ts, start(Timer(secs, m))) ELSE ts
newTimerOf(ts, secs) == IF secs > 0 THEN Len(ts) + 1 ELSE 0

(* _handleNext that checks the answer whatever the mode *)
handleNextAnyMode(r) ==
    IF r.currentIndex \notin r.checkedParts /\ r.currentIndex \notin r.feedback
    THEN "check"
    ELSE IF r.currentIndex = NumParts - 1
         THEN (IF r.mode = "exam" THEN "review" ELSE "finish")
         ELSE "navigate"

(* _handleNext that never checks the answer *)
handleNextUnchecked(r) ==
    IF r.currentIndex = NumParts - 1
    THEN (IF r.mode = "exam" THEN "review" ELSE "finish")
    ELSE "navigate"

(* _handleNext: which of its branches runs *)
handleNext(r) ==
    IF /\ r.mode = "practice"
       /\ r.currentIndex \notin r.checkedParts
       /\ r.currentIndex \notin r.feedback
    THEN "check"
    ELSE IF r.currentIndex = NumParts - 1
         THEN (IF r.mode = "exam" THEN "review" ELSE "finish")
         ELSE "navigate"

(* _navigate: whether it gets past its range test *)
canNavigate(r, delta) ==
    ~(r.currentIndex + delta < 0 \/ r.currentIndex + delta >= NumParts)

(* History of the application: ev the handler, from this.state when it     *)
(* started, entered whether it assigned this.state and rendered it, did    *)
(* what a runner handler did, timer the Timer whose interval fired,        *)
(* checkedHere whether the current part was checked since it was shown.    *)
Note(ev, entered, did, k, here) ==
    [ev |-> ev, from |-> app.state, entered |-> entered, did |-> did, timer |-> k,
     checkedHere |-> here]

(* this.state = s; this.renderState(): the root is emptied, dialogs go *)
enter(s) == [app EXCEPT !.state = s, !.dialog = "none"]

AppInit ==
    /\ spec = SpecBrief
    /\ mode = constructorMode(spec.interactiveMode, "none")
    /\ FreshGraph
    /\ NoTest
    /\ area = NotRendered
    /\ mapper = NotMapped
    /\ ctor = Constructed

(* Welcome: 'click' on Start, with the mode and timer preset chosen *)
Start(m, secs) ==
    /\ app.state = "welcome"
    /\ secs > 0 => Len(timers) < MaxRunners
    /\ app' = [state |-> "active", mode |-> m, timerSeconds |-> secs,
               timerExpired |-> FALSE, dialog |-> "none"]
    /\ timers' = withNewTimer(timers, secs, m)
    /\ runner' = TestRunner(m, {}, {}, 0, newTimerOf(timers, secs))
    /\ appLast' = Note("start", TRUE, "none", 0, FALSE)
    /\ UNCHANGED <<graphVars, spec, area, mapper, ctor, marking, analytics>>

(* TestRunner: 'click' on the Next button, _handleNext *)
HandleNext ==
    /\ app.state = "active"
    /\ LET did == handleNext(runner)
       IN  /\ appLast' = Note("next", did \in {"review", "finish"}, did, 0, did = "check")
           /\ runner' =
                IF did = "check"
                THEN [runner EXCEPT !.feedback = @ \cup {runner.currentIndex},
                                    !.checkedParts = @ \cup {runner.currentIndex}]
                ELSE IF did = "navigate"
                THEN [runner EXCEPT !.currentIndex = @ + 1]
                ELSE runner
           /\ timers' =
                IF did = "check" THEN withTimer(timers, runner.timer, "pause")
                ELSE IF did = "navigate" THEN withTimer(timers, runner.timer, "resume")
                ELSE IF did = "finish" THEN withTimer(timers, runner.timer, "stop")
                ELSE timers
           /\ app' =
                IF did = "review" THEN enter("review")
                ELSE IF did = "finish" THEN enter("results")
                ELSE app
    /\ UNCHANGED <<graphVars, spec, area, mapper, ctor, marking, analytics>>

(* TestRunner: 'click' on the Previous button, _navigate(-1) *)
Previous ==
    /\ app.state = "active"
    /\ IF canNavigate(runner, -1)
       THEN /\ runner' = [runner EXCEPT !.currentIndex = @ - 1]
            /\ timers' = withTimer(timers, runner.timer, "resume")
            /\ appLast' = Note("prev", FALSE, "navigate", 0, FALSE)
       ELSE /\ UNCHANGED <<runner, timers>>
            /\ appLast' = Note("prev", FALSE, "none", 0, appLast.checkedHere)
    /\ UNCHANGED <<graphVars, spec, area, mapper, ctor, marking, analytics, app>>

(* TestRunner: 'click' on the Flag button, shown in exam mode only *)
ToggleFlag ==
    /\ app.state = "active"
    /\ runner.mode = "exam"
    /\ runner' = [runner EXCEPT !.flags =
                     IF runner.currentIndex \in @ THEN @ \ {runner.currentIndex}
                     ELSE @ \cup {runner.currentIndex}]
    /\ appLast' = Note("flag", FALSE, "none", 0, appLast.checkedHere)
    /\ UNCHANGED <<graphVars, spec, area, mapper, ctor, marking, analytics, app, timers>>

(* QuestionCard: onAnswer for the current part *)
Answer ==
    /\ app.state = "active"
    /\ runner' = [runner EXCEPT !.answers = @ \cup {runner.currentIndex}]
    /\ appLast' = Note("answer", FALSE, "none", 0, appLast.checkedHere)
    /\ UNCHANGED <<graphVars, spec, area, mapper, ctor, marking, analytics, app, timers>>

(* TestRunner: 'click' on the Exit button, _confirmExit opens its dialog *)
ConfirmExit ==
    /\ app.state = "active"
    /\ app' = [app EXCEPT !.dialog = "exit"]
    /\ appLast' = Note("exit", FALSE, "none", 0, appLast.checkedHere)
    /\ UNCHANGED <<graphVars, spec, area, mapper, ctor, marking, analytics, runner, timers>>

(* 'click' on Continue Test, or on Go Back in the Review dialog *)
DialogCancelled ==
    /\ app.dialog # "none"
    /\ app' = [app EXCEPT !.dialog = "none"]
    /\ appLast' = Note("cancel", FALSE, "none", 0, appLast.checkedHere)
    /\ UNCHANGED <<graphVars, spec, area, mapper, ctor, marking, analytics, runner, timers>>

(* 'click' on Exit in the dialog: timer.stop(), onExit *)
ExitConfirmed ==
    /\ app.dialog = "exit"
    /\ timers' = withTimer(timers, runner.timer, "stop")
    /\ app' = enter("welcome")
    /\ appLast' = Note("exitConfirmed", TRUE, "none", 0, FALSE)
    /\ UNCHANGED <<graphVars, spec, area, mapper, ctor, marking, analytics, runner>>

(* the interval of the k-th Timer fires; on expiry onExpire calls          *)
(* _finishTest(true) of the runner that owns the timer, and that onFinish  *)
Tick(k) ==
    /\ k \in 1..Len(timers)
    /\ timers[k].running
    /\ LET t == tick(timers[k])
           expired == t.expired > timers[k].expired
       IN  /\ timers' = [timers EXCEPT ![k] = IF expired THEN stop(t) ELSE t]
           /\ app' = IF expired THEN [enter("results") EXCEPT !.timerExpired = TRUE]
                     ELSE app
           /\ appLast' = Note("tick", expired, IF expired THEN "finish" ELSE "none", k,
                              appLast.checkedHere /\ ~expired)
    /\ UNCHANGED <<graphVars, spec, area, mapper, ctor, marking, analytics, runner>>

(* Review: 'click' on part index, onJump: _renderActive(index) *)
Jump(index) ==
    /\ app.state = "review"
    /\ app.timerSeconds > 0 => Len(timers) < MaxRunners
    /\ app' = enter("active")
    /\ timers' = withNewTimer(timers, app.timerSeconds, app.mode)
    /\ runner' = TestRunner(app.mode, runner.answers, runner.flags, index,
                            newTimerOf(timers, app.timerSeconds))
    /\ appLast' = Note("jump", TRUE, "none", 0, FALSE)
    /\ UNCHANGED <<graphVars, spec, area, mapper, ctor, marking, analytics>>

(* Review: 'click' on Submit Test, _confirmSubmit opens its dialog *)
ConfirmSubmit ==
    /\ app.state = "review"
    /\ app' = [app EXCEPT !.dialog = "submit"]
    /\ appLast' = Note("submit", FALSE, "none", 0, FALSE)
    /\ UNCHANGED <<graphVars, spec, area, mapper, ctor, marking, analytics, runner, timers>>

(* 'click' on Submit in the dialog: onSubmit *)
SubmitConfirmed ==
    /\ app.dialog = "submit"
    /\ app' = enter("results")
    /\ appLast' = Note("submitConfirmed", TRUE, "none", 0, FALSE)
    /\ UNCHANGED <<graphVars, spec, area, mapper, ctor, marking, analytics, runner, timers>>

(* Results: 'click' on Retake, onRetake *)
Retake ==
    /\ app.state = "results"
    /\ app' = enter("welcome")
    /\ appLast' = Note("retake", TRUE, "none", 0, FALSE)
    /\ UNCHANGED <<graphVars, spec, area, mapper, ctor, marking, analytics, runner, timers>>

AppNext ==
    \/ \E m \in AppModes, secs \in TimerPresets : Start(m, secs)
    \/ HandleNext
    \/ Previous
    \/ ToggleFlag
    \/ Answer
    \/ ConfirmExit
    \/ DialogCancelled
    \/ ExitConfirmed
    \/ \E k \in 1..MaxRunners : Tick(k)
    \/ \E index \in 0..(NumParts - 1) : Jump(index)
    \/ ConfirmSubmit
    \/ SubmitConfirmed
    \/ Retake

SpecApp == AppInit /\ [][AppNext]_vars

(* C26: the app state changes only along welcome -> active (start),        *)
(* active -> review (exam mode only), review -> active (jump),             *)
(* review -> results (submit), active -> results (finish or timer          *)
(* expiry), active -> welcome (exit), results -> welcome (retake); review  *)
(* is never entered in practice mode, results never from welcome and       *)
(* never again from results.                                               *)
C26_StateMachine ==
    [][ /\ app'.state # app.state => appLast'.entered
        /\ app'.state = "review" => app'.mode = "exam"
        /\ appLast'.entered =>
             \/ app.state = "welcome" /\ app'.state = "active" /\ appLast'.ev = "start"
             \/ /\ app.state = "active" /\ app'.state = "review"
                /\ appLast'.ev = "next" /\ app.mode = "exam"
             \/ app.state = "review" /\ app'.state = "active" /\ appLast'.ev = "jump"
             \/ /\ app.state = "review" /\ app'.state = "results"
                /\ appLast'.ev = "submitConfirmed"
             \/ /\ app.state = "active" /\ app'.state = "results"
                /\ appLast'.ev \in {"next", "tick"}
             \/ /\ app.state = "active" /\ app'.state = "welcome"
                /\ appLast'.ev = "exitConfirmed"
             \/ app.state = "results" /\ app'.state = "welcome" /\ appLast'.ev = "retake"
      ]_vars

(* C27: when a running countdown reaches 0 the test is submitted: the      *)
(* timer stops, onExpire fires exactly once, the runner reports the finish *)
(* with timerExpired = true, and remaining is never negative.              *)
C27_ExpirySubmitsOnce ==
    [][ \A k \in 1..Len(timers) :
          /\ (timers[k].running /\ timers[k].remaining > 0 /\ timers'[k].remaining = 0)
                => /\ ~timers'[k].running
                   /\ timers[k].expired = 0
                   /\ timers'[k].expired = 1
                   /\ appLast'.ev = "tick"
                   /\ appLast'.timer = k
                   /\ appLast'.did = "finish"
                   /\ app'.state = "results"
                   /\ app'.timerExpired
          /\ timers'[k].expired # timers[k].expired => timers'[k].remaining = 0
          /\ timers'[k].remaining >= 0
          /\ timers'[k].remaining <= timers[k].remaining
          /\ timers'[k].expired <= 1
          /\ ~timers[k].running => timers'[k] = timers[k]
      ]_vars

(* C27 witness: the countdown of the running test reached 0 and the        *)
(* results are shown.                                                      *)
C27_Witness ==
    /\ appLast.ev = "tick"
    /\ appLast.from = "active"
    /\ appLast.did = "finish"
    /\ runner.timer # 0
    /\ appLast.timer = runner.timer
    /\ timers[runner.timer] = [totalSeconds |-> MaxSeconds, remaining |-> 0,
                               running |-> FALSE, paused |-> FALSE, expired |-> 1,
                               of |-> runner.mode]
    /\ app.state = "results"
    /\ app.timerExpired

(* C28: in practice mode, from the check of a part's answer until the user *)
(* navigates to another part, the countdown is paused: remaining does not  *)
(* decrease and the timer does not expire.  The timer of an exam mode      *)
(* runner is never paused.                                                 *)
C28_PausedBetweenQuestions ==
    [][ /\ (runner'.mode = "practice" /\ runner'.timer # 0 /\ appLast'.checkedHere)
              => timers'[runner'.timer].paused
        /\ (/\ runner.mode = "practice" /\ runner.timer # 0
            /\ appLast.checkedHere /\ appLast'.checkedHere)
              => /\ runner'.timer = runner.timer
                 /\ runner'.currentIndex = runner.currentIndex
                 /\ timers'[runner.timer].remaining = timers[runner.timer].remaining
                 /\ timers'[runner.timer].expired = timers[runner.timer].expired
        /\ \A k \in 1..Len(timers') : timers'[k].of = "exam" => ~timers'[k].paused
      ]_vars

(* C28 witness: in practice mode the interval fired after the first part   *)
(* was checked, and the countdown still shows the full time.               *)
C28_Witness ==
    /\ runner.mode = "practice"
    /\ runner.timer # 0
    /\ app.state = "active"
    /\ appLast.checkedHere
    /\ appLast.ev = "tick"
    /\ appLast.timer = runner.timer
    /\ runner.currentIndex \in runner.checkedParts
    /\ timers[runner.timer].running
    /\ timers[runner.timer].paused
    /\ timers[runner.timer].remaining = MaxSeconds

(* C29: in exam mode, whatever sequence of Next, Previous, Flag and answer *)
(* events, the runner never marks a part, its feedback and checked maps    *)
(* stay empty, and Next only navigates or, on the last part, opens the     *)
(* review screen.                                                          *)
C29_NoFeedbackInExam ==
    [][ runner'.mode = "exam" =>
          /\ runner'.feedback = {}
          /\ runner'.checkedParts = {}
          /\ appLast'.did # "check"
          /\ ~appLast'.checkedHere
          /\ (runner.mode = "exam" /\ appLast'.ev = "next") =>
                \/ /\ runner.currentIndex < NumParts - 1
                   /\ appLast'.did = "navigate"
                   /\ runner' = [runner EXCEPT !.currentIndex = @ + 1]
                   /\ app' = app
                \/ /\ runner.currentIndex = NumParts - 1
                   /\ appLast'.did = "review"
                   /\ runner' = runner
                   /\ app'.state = "review"
      ]_vars

(* C29 witness: an exam in which every part was answered and flagged went  *)
(* to the review screen by Next on the last part, without feedback.        *)
C29_Witness ==
    /\ runner.mode = "exam"
    /\ app.state = "review"
    /\ appLast.ev = "next"
    /\ appLast.did = "review"
    /\ runner.answers = 0..(NumParts - 1)
    /\ runner.flags = 0..(NumParts - 1)
    /\ runner.feedback = {}
    /\ runner.checkedParts = {}

----------------------------------------------------------------------------
(* The marking engine on a numeric-with-unit part.  Values are in          *)
(* thousandths.                                                            *)

(* the most marks a part or a method mark is worth *)
MaxMarks == 3

(* part.methodMarks by the marks of each entry, 0 for an entry without     *)
(* marks                                                                   *)
MethodMarkLists == {<<>>, <<0>>, <<1>>, <<1, 1>>, <<MaxMarks - 1>>}

(* schema.correct, schema.tolerance (0 for absent) and the units offered *)
CorrectValue == 2500
Tolerances == {0, 100}
Units == {"m/s", "m"}
CorrectUnit == "m/s"

(* what the student typed as value: nothing, text that parseFloat cannot   *)
(* read, or a number: the correct value, values at and just beyond each    *)
(* tolerance                                                               *)
TypedValues ==
    {[kind |-> "empty", num |-> 0], [kind |-> "text", num |-> 0]}
        \cup {[kind |-> "number", num |-> CorrectValue + d] : d \in {0, 1, 100, 101, -100}}

(* _withinTolerance: |value - correct| < 0.001 for tolerance 0, else       *)
(* |value - correct| <= tolerance                                          *)
valueWithinTolerance(value, correct, tolerance) ==
    IF tolerance = 0 THEN Abs(value - correct) < 1
    ELSE Abs(value - correct) <= tolerance

(* methodMarks.reduce((sum, m) => sum + (m.marks || 1), 0) *)
RECURSIVE sumMethodMarks(_)
sumMethodMarks(methodMarks) ==
    IF methodMarks = <<>> THEN 0
    ELSE (IF Head(methodMarks) = 0 THEN 1 ELSE Head(methodMarks))
            + sumMethodMarks(Tail(methodMarks))

(* _totalMarks: 1 + the sum, || 1 *)
totalMarks(methodMarks) ==
    IF 1 + sumMethodMarks(methodMarks) = 0 THEN 1 ELSE 1 + sumMethodMarks(methodMarks)

Result(marks, maxMarks, correct) == [marks |-> marks, maxMarks |-> maxMarks, correct |-> correct]

(* markNumericWithUnit *)
markNumericWithUnit(answer, schema, methodMarks) ==
    IF answer.value.kind = "empty" THEN Result(0, totalMarks(methodMarks), FALSE)
    ELSE IF answer.value.kind = "text" THEN Result(0, totalMarks(methodMarks), FALSE)
    ELSE LET valueCorrect ==
                 valueWithinTolerance(answer.value.num, schema.correct, schema.tolerance)
             unitCorrect == answer.unit = schema.correctUnit
         IN  IF valueCorrect /\ unitCorrect
             THEN Result(totalMarks(methodMarks), totalMarks(methodMarks), TRUE)
             ELSE IF valueCorrect /\ ~unitCorrect
             THEN Result(Max2(0, totalMarks(methodMarks) - 1), totalMarks(methodMarks), FALSE)
             ELSE Result(0, totalMarks(methodMarks), FALSE)

(* scoreScenario without the clamp of the marks to part.marks *)
clampSkipped(result, part) == [result EXCEPT !.maxMarks = part.marks]

(* scoreScenario: result.maxMarks = part.marks; result.marks =              *)
(* Math.min(result.marks, part.marks)                                      *)
clampToPart(result, part) ==
    [result EXCEPT !.maxMarks = part.marks, !.marks = Min2(result.marks, part.marks)]

(* scoreScenario, for one part: the result the part contributes *)
scorePart(answer, part) ==
    clampToPart(markNumericWithUnit(answer, part.answerSchema, part.methodMarks), part)

MarkInit ==
    /\ spec = SpecBrief
    /\ mode = constructorMode(spec.interactiveMode, "none")
    /\ FreshGraph
    /\ app = AppConstructed
    /\ runner = NoRunner
    /\ timers = <<>>
    /\ analytics = NotLoaded
    /\ appLast = [ev |-> "constructor", from |-> "welcome", entered |-> FALSE,
                  did |-> "none", timer |-> 0, checkedHere |-> FALSE]
    /\ area = NotRendered
    /\ mapper = NotMapped
    /\ ctor = Constructed
    /\ \E marks \in 1..MaxMarks, methodMarks \in MethodMarkLists,
          tolerance \in Tolerances, value \in TypedValues, unit \in Units :
         marking = [stage |-> "answered",
                    part |-> [marks |-> marks, methodMarks |-> methodMarks,
                              answerSchema |-> [correct |-> CorrectValue,
                                                tolerance |-> tolerance,
                                                correctUnit |-> CorrectUnit]],
                    answer |-> [value |-> value, unit |-> unit],
                    result |-> Result(0, 0, FALSE)]

(* scoreScenario: this.markAnswer(answer, part.answerSchema, part.methodMarks) *)
MarkAnswer ==
    /\ marking.stage = "answered"
    /\ marking' = [marking EXCEPT
                     !.stage = "marked",
                     !.result = markNumericWithUnit(marking.answer, marking.part.answerSchema,
                                                    marking.part.methodMarks)]
    /\ UNCHANGED <<graphVars, spec, area, mapper, ctor, app, runner, timers, appLast, analytics>>

(* scoreScenario: the override of maxMarks and the clamp to part.marks *)
ClampToPart ==
    /\ marking.stage = "marked"
    /\ marking' = [marking EXCEPT !.stage = "scored",
                                  !.result = clampToPart(marking.result, marking.part)]
    /\ UNCHANGED <<graphVars, spec, area, mapper, ctor, app, runner, timers, appLast, analytics>>

MarkNext ==
    \/ MarkAnswer
    \/ ClampToPart

SpecMark == MarkInit /\ [][MarkNext]_vars

(* the answer has a value within tolerance and a unit other than the       *)
(* correct one                                                             *)
rightValueWrongUnit(answer, schema) ==
    /\ answer.value.kind = "number"
    /\ valueWithinTolerance(answer.value.num, schema.correct, schema.tolerance)
    /\ answer.unit # schema.correctUnit

(* the fully correct answer to a part *)
correctAnswer(schema) ==
    [value |-> [kind |-> "number", num |-> schema.correct], unit |-> schema.correctUnit]

(* C30: for a numeric-with-unit part, an answer with a value within        *)
(* tolerance and a wrong unit gets, in the marks the part finally          *)
(* contributes (after the clamp to the part's marks), exactly one mark     *)
(* less than a fully correct answer to the same part, and never the        *)
(* part's full marks.                                                      *)
C30_WrongUnitCostsOneMark ==
    (marking.stage = "scored" /\ rightValueWrongUnit(marking.answer, marking.part.answerSchema))
        => /\ marking.result.marks
                = scorePart(correctAnswer(marking.part.answerSchema), marking.part).marks - 1
           /\ marking.result.marks < marking.part.marks

(***************************************************************************)
(* The marking engine on a graph_points part.  Coordinates and tolerances  *)
(* are in thousandths.                                                     *)
(***************************************************************************)

(* the most expected points of a schema *)
MaxExpected == 5

(* exp.toleranceX / exp.toleranceY of an expected point: not given, given  *)
(* as 0, given as 0.25                                                     *)
PointTolerances ==
    {[given |-> FALSE, v |-> 0], [given |-> TRUE, v |-> 0], [given |-> TRUE, v |-> 250]}

(* schema.expectedPoints: n points (1, 1), (2, 2), ... with one tolerance  *)
(* pair                                                                    *)
expectedPoints(n, tx, ty) ==
    [k \in 1..n |-> [x |-> k * 1000, y |-> k * 1000, toleranceX |-> tx, toleranceY |-> ty]]

(* how far a plotted point lies from the expected point it aims at *)
PlotOffsets == {0, 250, 251, 500, 501}

(* the answer of a graph_plot part: missing, or the list of plotted        *)
(* points: m points, the k-th at (dx, dy) from the k-th expected point     *)
NoPlot == [given |-> FALSE, points |-> <<>>]
plotted(m, dx, dy) ==
    [given |-> TRUE, points |-> [k \in 1..m |-> [x |-> k * 1000 + dx, y |-> k * 1000 + dy]]]

(* exp.toleranceX || 0.5 *)
toleranceOr(t) == IF ~t.given \/ t.v = 0 THEN 500 ELSE t.v

(* placedPoints.some(p => |p.x - exp.x| <= tolX && |p.y - exp.y| <= tolY) *)
found(placed, exp) ==
    \E j \in 1..Len(placed) :
        /\ Abs(placed[j].x - exp.x) <= toleranceOr(exp.toleranceX)
        /\ Abs(placed[j].y - exp.y) <= toleranceOr(exp.toleranceY)

(* the loop of markGraphPoints over the expected points *)
RECURSIVE countMatched(_, _)
countMatched(placed, expected) ==
    IF expected = <<>> THEN 0
    ELSE (IF found(placed, Head(expected)) THEN 1 ELSE 0) + countMatched(placed, Tail(expected))

(* markGraphPoints *)
markGraphPoints(answer, schema) ==
    IF ~answer.given \/ Len(answer.points) = 0
    THEN [marks |-> 0, maxMarks |-> 2, correct |-> FALSE, matched |-> 0, total |-> 0]
    ELSE LET matched == countMatched(answer.points, schema.expectedPoints)
             marks == IF matched >= Len(schema.expectedPoints) THEN 2
                      ELSE IF matched >= 4 THEN 1
                      ELSE 0
         IN  [marks |-> marks, maxMarks |-> 2, correct |-> marks = 2,
              matched |-> matched, total |-> Len(schema.expectedPoints)]

PlotInit ==
    /\ spec = SpecBrief
    /\ mode = constructorMode(spec.interactiveMode, "none")
    /\ FreshGraph
    /\ app = AppConstructed
    /\ runner = NoRunner
    /\ timers = <<>>
    /\ analytics = NotLoaded
    /\ appLast = [ev |-> "constructor", from |-> "welcome", entered |-> FALSE,
                  did |-> "none", timer |-> 0, checkedHere |-> FALSE]
    /\ area = NotRendered
    /\ mapper = NotMapped
    /\ ctor = Constructed
    /\ \E n \in {0, 1, MaxExpected - 1, MaxExpected}, tx \in PointTolerances, ty \in PointTolerances :
         \E answer \in {NoPlot} \cup {plotted(m, dx, dy) : m \in 0..n, dx \in PlotOffsets,
                                                          dy \in PlotOffsets} :
            marking = [stage |-> "plotted",
                       schema |-> [expectedPoints |-> expectedPoints(n, tx, ty)],
                       answer |-> answer,
                       result |-> Result(0, 0, FALSE)]

(* markAnswer, case 'graph_points': this.markGraphPoints(answer, schema) *)
MarkGraphPoints ==
    /\ marking.stage = "plotted"
    /\ marking' = [marking EXCEPT !.stage = "plotMarked",
                                  !.result = markGraphPoints(marking.answer, marking.schema)]
    /\ UNCHANGED <<graphVars, spec, area, mapper, ctor, app, runner, timers, appLast, analytics>>

PlotNext == MarkGraphPoints

SpecPlot == PlotInit /\ [][PlotNext]_vars

(* the tolerance of an expected point as the schema states it: the given   *)
(* one, 0.5 when none is given                                             *)
statedTolerance(t) == IF t.given THEN t.v ELSE 500

(* some plotted point lies within the stated tolerances of exp *)
matchedAsStated(placed, exp) ==
    \E j \in 1..Len(placed) :
        /\ Abs(placed[j].x - exp.x) <= statedTolerance(exp.toleranceX)
        /\ Abs(placed[j].y - exp.y) <= statedTolerance(exp.toleranceY)

(* the marks for the number of expected points matched as stated *)
marksAsStated(answer, expected) ==
    LET n == Cardinality({i \in 1..Len(expected) : matchedAsStated(answer.points, expected[i])})
    IN  IF ~answer.given \/ answer.points = <<>> THEN 0
        ELSE IF n = Len(expected) THEN 2
        ELSE IF n >= 4 THEN 1
        ELSE 0

(* C31: markGraphPoints matches an expected point exactly when a plotted   *)
(* point lies within its toleranceX and toleranceY (0.5 where none is      *)
(* given), and awards 2 marks exactly when every expected point is         *)
(* matched, 1 when not all but at least 4 are, 0 otherwise and 0 for an    *)
(* empty or missing answer.                                                *)
C31_GraphPointsMarks ==
    marking.stage = "plotMarked"
        => marking.result.marks = marksAsStated(marking.answer, marking.schema.expectedPoints)

(* the same, for schemas without a tolerance given as 0 *)
C31_HoldsForNonZeroTolerances ==
    (/\ marking.stage = "plotMarked"
     /\ \A i \in 1..Len(marking.schema.expectedPoints) :
           /\ ~(marking.schema.expectedPoints[i].toleranceX = [given |-> TRUE, v |-> 0])
           /\ ~(marking.schema.expectedPoints[i].toleranceY = [given |-> TRUE, v |-> 0]))
        => marking.result.marks = marksAsStated(marking.answer, marking.schema.expectedPoints)

(***************************************************************************)
(* The countdown and the screens                                           *)
(***************************************************************************)

(* the Timers whose interval is set *)
runningTimers == {k \in 1..Len(timers) : timers[k].running}

(* C35: at any time at most one countdown is running, and it is the one    *)
(* of the runner on screen: none runs while the application shows review,  *)
(* results or welcome, so none can expire there and move the application   *)
(* to results, and a jump back from review leaves no second countdown.     *)
C35_OneCountdownOfTheRunnerOnScreen ==
    /\ Cardinality(runningTimers) <= 1
    /\ \A k \in runningTimers : app.state = "active" /\ runner.timer = k

(* the same while every countdown started belongs to a practice test,      *)
(* which has no review screen                                              *)
C35_HoldsInPractice ==
    (\A k \in 1..Len(timers) : timers[k].of = "practice")
        => C35_OneCountdownOfTheRunnerOnScreen

(***************************************************************************)
(* Practice mode: the parts behind the current one                         *)
(***************************************************************************)

(* every part before the current one of a practice runner is checked *)
checkedBehind(r) ==
    r.mode = "practice" => \A i \in 0..(r.currentIndex - 1) : i \in r.checkedParts

(* C37: in practice mode every part with an index below the current one    *)
(* has been checked; Next on an unchecked part checks it and stays on it,  *)
(* and Next finishes the test only when every part has been checked.       *)
C37_PracticeChecksInOrder ==
    [][/\ checkedBehind(runner')
       /\ (/\ appLast'.ev = "next"
           /\ runner.mode = "practice"
           /\ runner.currentIndex \notin runner.checkedParts)
            => /\ appLast'.did = "check"
               /\ runner'.currentIndex = runner.currentIndex
               /\ runner.currentIndex \in runner'.checkedParts
               /\ app'.state = "active"
       /\ (appLast'.ev = "next" /\ appLast'.did = "finish")
            => runner.checkedParts = 0..(NumParts - 1)]_vars

(* a practice test finished by Next on its last part *)
C37_Witness ==
    /\ appLast.ev = "next"
    /\ appLast.did = "finish"
    /\ runner.mode = "practice"
    /\ app.state = "results"
    /\ runner.currentIndex = NumParts - 1

(***************************************************************************)
(* scoreTest over the parts of a test.  An answer is what                  *)
(* this.answers[part.id] holds: nothing, an option id, a {value, unit}     *)
(* object or a list of plotted points.                                     *)
(***************************************************************************)

NoAnswer == [kind |-> "missing"]
optionAnswer(id) == [kind |-> "option", id |-> id]
typedAnswer(value, unit) == [kind |-> "typed", value |-> value, unit |-> unit]
pointsAnswer(points) == [kind |-> "points", points |-> points]

(* the answer as markNumericWithUnit and markNumeric read it: answer.value *)
(* is undefined on everything but a {value, unit} object                   *)
asTyped(answer) ==
    IF answer.kind = "typed" THEN [value |-> answer.value, unit |-> answer.unit]
    ELSE [value |-> [kind |-> "empty", num |-> 0], unit |-> ""]

(* the answer as markGraphPoints reads it *)
asPoints(answer) ==
    IF answer.kind = "points" THEN [given |-> TRUE, points |-> answer.points] ELSE NoPlot

(* markMCQ *)
markMCQ(answer, schema) ==
    LET correct == answer.kind = "option" /\ answer.id = schema.correct
    IN  Result(IF correct THEN 1 ELSE 0, 1, correct)

(* markNumeric *)
markNumeric(answer, schema, methodMarks) ==
    IF asTyped(answer).value.kind \in {"empty", "text"}
    THEN Result(0, totalMarks(methodMarks), FALSE)
    ELSE LET correct ==
                 valueWithinTolerance(asTyped(answer).value.num, schema.correct, schema.tolerance)
         IN  Result(IF correct THEN totalMarks(methodMarks) ELSE 0, totalMarks(methodMarks),
                    correct)

(* markAnswer: the switch on schema.type; marks, maxMarks and correct of   *)
(* the result                                                              *)
markAnswer(answer, schema, methodMarks) ==
    IF schema.type = "mcq" THEN markMCQ(answer, schema)
    ELSE IF schema.type = "numeric_with_unit"
    THEN markNumericWithUnit(asTyped(answer), schema, methodMarks)
    ELSE IF schema.type = "numeric" THEN markNumeric(answer, schema, methodMarks)
    ELSE IF schema.type = "graph_points"
    THEN LET r == markGraphPoints(asPoints(answer), schema)
         IN  Result(r.marks, r.maxMarks, r.correct)
    ELSE Result(0, 0, FALSE)

(* the schemas of the parts scored *)
SchemaMCQ == [type |-> "mcq", correct |-> "B"]
SchemaUnit == [type |-> "numeric_with_unit", correct |-> CorrectValue, tolerance |-> 100,
               correctUnit |-> CorrectUnit]
SchemaNumeric == [type |-> "numeric", correct |-> CorrectValue, tolerance |-> 0]
SchemaPlot == [type |-> "graph_points",
               expectedPoints |-> expectedPoints(MaxExpected, [given |-> FALSE, v |-> 0],
                                                 [given |-> FALSE, v |-> 0])]
SchemaUnknown == [type |-> "essay"]

Number(n) == [kind |-> "number", num |-> n]
PlottedAll == pointsAnswer(plotted(MaxExpected, 0, 0).points)
PlottedMost == pointsAnswer(plotted(MaxExpected - 1, 0, 0).points)

(* a part with the answer recorded for it: marks from 0 to MaxMarks,       *)
(* answers missing, right, wrong, partly right, and of another part type   *)
part(schema, marks, methodMarks, answer) ==
    [answerSchema |-> schema, marks |-> marks, methodMarks |-> methodMarks, answer |-> answer]

ScoredParts ==
    {part(SchemaMCQ, m, <<>>, a) :
        m \in {0, 1, MaxMarks}, a \in {NoAnswer, optionAnswer("B"), optionAnswer("A"), PlottedAll}}
    \cup {part(SchemaUnit, m, mm, a) :
            m \in {1, MaxMarks}, mm \in {<<>>, <<1, 1>>},
            a \in {NoAnswer, typedAnswer(Number(CorrectValue), CorrectUnit),
                   typedAnswer(Number(CorrectValue), "m"),
                   typedAnswer([kind |-> "text", num |-> 0], CorrectUnit), PlottedMost}}
    \cup {part(SchemaNumeric, m, <<MaxMarks - 1>>, a) :
            m \in {1, MaxMarks},
            a \in {typedAnswer(Number(CorrectValue), ""), typedAnswer(Number(CorrectValue + 1), "")}}
    \cup {part(SchemaPlot, m, <<>>, a) :
            m \in {1, 2, MaxMarks}, a \in {NoAnswer, pointsAnswer(<<>>), PlottedAll, PlottedMost}}
    \cup {part(SchemaUnknown, 1, <<>>, NoAnswer)}

(* the scenarios of a test by their parts: no scenario, one scenario of    *)
(* one or two parts, two scenarios of one part                             *)
ScoredTests ==
    {<<>>} \cup {<< <<p>> >> : p \in ScoredParts}
        \cup {<< <<p, q>> >> : p \in ScoredParts, q \in ScoredParts}
        \cup {<< <<p>>, <<q>> >> : p \in ScoredParts, q \in ScoredParts}

Totals(totalMarks_, maxMarks_) == [totalMarks |-> totalMarks_, maxMarks |-> maxMarks_]

(* Math.round((totalMarks / maxMarks) * 100), 0 for maxMarks 0 *)
percentageOf(t) == IF t.maxMarks > 0 THEN RoundDiv(t.totalMarks * 100, t.maxMarks) ELSE 0

(* scoreTest is entered: s the scenario and p the part the loops are at,   *)
(* results the partResults so far                                          *)
ScoreInit ==
    /\ spec = SpecBrief
    /\ mode = constructorMode(spec.interactiveMode, "none")
    /\ FreshGraph
    /\ app = AppConstructed
    /\ runner = NoRunner
    /\ timers = <<>>
    /\ analytics = NotLoaded
    /\ appLast = [ev |-> "constructor", from |-> "welcome", entered |-> FALSE,
                  did |-> "none", timer |-> 0, checkedHere |-> FALSE]
    /\ area = NotRendered
    /\ mapper = NotMapped
    /\ ctor = Constructed
    /\ \E scenarios \in ScoredTests :
         marking = [stage |-> "scoring", scenarios |-> scenarios, s |-> 1, p |-> 1,
                    scenario |-> Totals(0, 0), test |-> Totals(0, 0),
                    results |-> <<>>, percentage |-> 0]

(* scoreScenario: one turn of its loop over scenario.parts *)
ScorePart ==
    /\ marking.stage = "scoring"
    /\ marking.s <= Len(marking.scenarios)
    /\ marking.p <= Len(marking.scenarios[marking.s])
    /\ LET pt == marking.scenarios[marking.s][marking.p]
           result == clampToPart(markAnswer(pt.answer, pt.answerSchema, pt.methodMarks), pt)
       IN  marking' = [marking EXCEPT
                         !.p = @ + 1,
                         !.scenario = Totals(@.totalMarks + result.marks, @.maxMarks + pt.marks),
                         !.results = Append(@, [result |-> result, part |-> pt])]
    /\ UNCHANGED <<graphVars, spec, area, mapper, ctor, app, runner, timers, appLast, analytics>>

(* scoreTest: scoreScenario returns and its totals are added *)
ScoreScenario ==
    /\ marking.stage = "scoring"
    /\ marking.s <= Len(marking.scenarios)
    /\ marking.p > Len(marking.scenarios[marking.s])
    /\ marking' = [marking EXCEPT
                     !.s = @ + 1, !.p = 1, !.scenario = Totals(0, 0),
                     !.test = Totals(@.totalMarks + marking.scenario.totalMarks,
                                     @.maxMarks + marking.scenario.maxMarks)]
    /\ UNCHANGED <<graphVars, spec, area, mapper, ctor, app, runner, timers, appLast, analytics>>

(* scoreTest: the percentage after the loop over the scenarios *)
ScoreTest ==
    /\ marking.stage = "scoring"
    /\ marking.s > Len(marking.scenarios)
    /\ marking' = [marking EXCEPT !.stage = "scoredTest", !.percentage = percentageOf(marking.test)]
    /\ UNCHANGED <<graphVars, spec, area, mapper, ctor, app, runner, timers, appLast, analytics>>

ScoreNext ==
    \/ ScorePart
    \/ ScoreScenario
    \/ ScoreTest

SpecScore == ScoreInit /\ [][ScoreNext]_vars

RECURSIVE sumOfPartMarks(_)
sumOfPartMarks(results) ==
    IF results = <<>> THEN 0 ELSE Head(results).part.marks + sumOfPartMarks(Tail(results))

MAX_QUEUE_SIZE == 50

(* track() calls over the life of the page *)
MaxEvents == 52

(* track() calls of a page that sets session properties *)
SessionEvents == 2

(* the keys a setSessionMeta call may carry *)
MetaKeys == {"mode", "attempt_id"}

(* what localStorage holds under consentKey *)
StoredConsents == {"none", "true", "false"}

(* the module after import: _config = DEFAULTS, _posthog = null,           *)
(* _initialized = false, nothing queued; events: the track() calls to      *)
(* come.  logged and captured are what console.log and posthog.capture     *)
(* were given, lastProps the session properties on the last event that     *)
(* was passed on, sinceClear whether clearSessionMeta ran since the last   *)
(* setSessionMeta and whether an event was passed on since.                *)
Imported(events, consent) ==
    [initialized |-> FALSE, enabled |-> TRUE, debug |-> FALSE, posthog |-> FALSE,
     consent |-> consent, queue |-> <<>>, sessionMeta |-> {}, sessionMetaKeys |-> {},
     registered |-> {}, captured |-> <<>>, logged |-> <<>>, lastProps |-> {},
     tracked |-> 0, events |-> events, sinceClear |-> "none"]

(* _enqueue without the test of the queue's length *)
enqueueUnbounded(a, event) == [a EXCEPT !.queue = Append(@, event)]

(* _enqueue *)
enqueue(a, event) ==
    IF Len(a.queue) < MAX_QUEUE_SIZE THEN [a EXCEPT !.queue = Append(@, event)] ELSE a

(* track after its test of _initialized: enrichment, console.log under     *)
(* debug, _posthog.capture, which adds the registered properties           *)
passOn(a, event) ==
    IF ~a.enabled THEN a
    ELSE [a EXCEPT
            !.logged = IF a.debug THEN Append(@, event) ELSE @,
            !.captured = IF a.posthog THEN Append(@, event) ELSE @,
            !.lastProps = IF a.posthog THEN a.sessionMeta \cup a.registered
                          ELSE IF a.debug THEN a.sessionMeta
                          ELSE @,
            !.sinceClear = IF (a.posthog \/ a.debug) /\ @ = "cleared" THEN "captured" ELSE @]

(* track *)
track(a, event) == IF ~a.initialized THEN enqueue(a, event) ELSE passOn(a, event)

(* the loop of _drainQueue over the spliced events, one call of track after *)
(* the other: the state after a call is computed (the test of its queue's   *)
(* length does so) before the next call is made from it                     *)
RECURSIVE trackAll(_, _)
trackAll(a, queued) ==
    IF queued = <<>> THEN a
    ELSE LET after == track(a, Head(queued))
         IN  IF Len(after.queue) >= 0 THEN trackAll(after, Tail(queued)) ELSE after

(* _drainQueue *)
drainQueue(a) == trackAll([a EXCEPT !.queue = <<>>], a.queue)

(* the enabled of init: the override, unless the stored consent is 'true'  *)
(* or 'false'                                                              *)
consented(override, consent) ==
    IF consent = "true" THEN TRUE ELSE IF consent = "false" THEN FALSE ELSE override

(* init(overrides), on a page with or without an API key and the provider  *)
(* snippet                                                                 *)
init(a, enabled, debug, apiKey, snippet) ==
    IF a.initialized THEN a
    ELSE LET cfg == [a EXCEPT !.enabled = consented(enabled, a.consent), !.debug = debug]
         IN  IF ~cfg.enabled THEN drainQueue([cfg EXCEPT !.initialized = TRUE])
             ELSE IF ~apiKey THEN drainQueue([cfg EXCEPT !.debug = TRUE, !.initialized = TRUE])
             ELSE IF ~snippet THEN drainQueue([cfg EXCEPT !.debug = TRUE, !.initialized = TRUE])
             ELSE drainQueue([cfg EXCEPT !.posthog = TRUE, !.initialized = TRUE])

(* setSessionMeta(meta) with Object.keys(meta) = keys; posthog.register    *)
(* adds them to the registered properties                                  *)
setSessionMeta(a, keys) ==
    [a EXCEPT !.sessionMeta = keys, !.sessionMetaKeys = keys,
              !.registered = IF a.posthog THEN @ \cup keys ELSE @,
              !.sinceClear = "none"]

(* clearSessionMeta; posthog.unregister removes a registered property *)
clearSessionMeta(a) ==
    [a EXCEPT !.registered = IF a.posthog THEN @ \ a.sessionMetaKeys ELSE @,
              !.sessionMeta = {}, !.sessionMetaKeys = {},
              !.sinceClear = "cleared"]

AnalyticsFresh ==
    /\ spec = SpecBrief
    /\ mode = constructorMode(spec.interactiveMode, "none")
    /\ FreshGraph
    /\ app = AppConstructed
    /\ runner = NoRunner
    /\ timers = <<>>
    /\ appLast = [ev |-> "constructor", from |-> "welcome", entered |-> FALSE,
                  did |-> "none", timer |-> 0, checkedHere |-> FALSE]
    /\ marking = NotMarked
    /\ area = NotRendered
    /\ mapper = NotMapped
    /\ ctor = Constructed

QueueInit ==
    /\ AnalyticsFresh
    /\ \E consent \in StoredConsents : analytics = Imported(MaxEvents, consent)

(* a call of track from anywhere in the application *)
Track ==
    /\ analytics.tracked < analytics.events
    /\ analytics' = [track(analytics, analytics.tracked + 1) EXCEPT !.tracked = @ + 1]
    /\ UNCHANGED <<graphVars, spec, area, mapper, ctor, app, runner, timers, appLast, marking>>

(* a call of init *)
AnalyticsInit(enabled, debug, apiKey, snippet) ==
    /\ analytics' = init(analytics, enabled, debug, apiKey, snippet)
    /\ UNCHANGED <<graphVars, spec, area, mapper, ctor, app, runner, timers, appLast, marking>>

QueueNext ==
    \/ Track
    \/ \E enabled \in BOOLEAN, debug \in BOOLEAN, apiKey \in BOOLEAN, snippet \in BOOLEAN :
          AnalyticsInit(enabled, debug, apiKey, snippet)

SpecQueue == QueueInit /\ [][QueueNext]_vars

(* the events 1 .. n in the order they were tracked *)
firstEvents(n) == [i \in 1..n |-> i]

(* the step is an init that completes with analytics enabled *)
initCompletesEnabled == ~analytics.initialized /\ analytics'.initialized /\ analytics'.enabled

(* C32: events tracked before init() are buffered, the first 50 of them    *)
(* and no later one; an init() that completes with analytics enabled       *)
(* passes each buffered event on exactly once, in the order tracked (to    *)
(* the provider where there is one, to the log where debug is on), ahead   *)
(* of every event tracked after init; once init() has run the buffer is    *)
(* empty and stays empty.                                                  *)
C32_BufferedEventsDeliveredInOrder ==
    [][/\ ~analytics'.initialized
            => analytics'.queue = firstEvents(Min2(analytics'.tracked, MAX_QUEUE_SIZE))
       /\ analytics'.initialized => analytics'.queue = <<>>
       /\ initCompletesEnabled
            => /\ analytics'.posthog \/ analytics'.debug
               /\ analytics'.posthog => analytics'.captured = analytics.queue
               /\ analytics'.debug => analytics'.logged = analytics.queue
       /\ (analytics.initialized /\ analytics.enabled)
            => /\ analytics.posthog
                    => analytics'.captured = Append(analytics.captured, analytics'.tracked)
               /\ analytics.debug
                    => analytics'.logged = Append(analytics.logged, analytics'.tracked)]_vars

(* more events were tracked than the buffer holds, init then passed the    *)
(* 50 buffered ones to the provider, and one tracked later followed them   *)
C32_Witness ==
    /\ analytics.initialized
    /\ analytics.posthog
    /\ analytics.tracked = MAX_QUEUE_SIZE + 2
    /\ Len(analytics.captured) = MAX_QUEUE_SIZE + 1
    /\ analytics.captured[MAX_QUEUE_SIZE] = MAX_QUEUE_SIZE
    /\ analytics.captured[MAX_QUEUE_SIZE + 1] = MAX_QUEUE_SIZE + 2

SessionInit ==
    /\ AnalyticsFresh
    /\ \E consent \in StoredConsents : analytics = Imported(SessionEvents, consent)

(* a call of setSessionMeta with an object of the given keys *)
SetSessionMeta(keys) ==
    /\ analytics' = setSessionMeta(analytics, keys)
    /\ UNCHANGED <<graphVars, spec, area, mapper, ctor, app, runner, timers, appLast, marking>>

(* a call of clearSessionMeta *)
ClearSessionMeta ==
    /\ analytics' = clearSessionMeta(analytics)
    /\ UNCHANGED <<graphVars, spec, area, mapper, ctor, app, runner, timers, appLast, marking>>

SessionNext ==
    \/ QueueNext
    \/ \E keys \in SUBSET MetaKeys : SetSessionMeta(keys)
    \/ ClearSessionMeta

SpecSession == SessionInit /\ [][SessionNext]_vars

(* C33: after clearSessionMeta, and until the next setSessionMeta, no      *)
(* session property of any earlier setSessionMeta call is registered with  *)
(* the provider, held by the module, or on an event passed on since,       *)
(* whatever the key sets of the setSessionMeta calls were.                 *)
C33_ClearRemovesEverySessionProperty ==
    analytics.sinceClear # "none"
        => /\ analytics.registered = {}
           /\ analytics.sessionMeta = {}
           /\ analytics.sinceClear = "captured" => analytics.lastProps = {}

(* the same for what the module itself holds and adds to events *)
C33_ModuleHoldsNoSessionProperty ==
    analytics.sinceClear # "none"
        => /\ analytics.sessionMeta = {}
           /\ analytics.sessionMetaKeys = {}
           /\ (analytics.sinceClear = "captured" /\ ~analytics.posthog) => analytics.lastProps = {}

(* the same while the provider holds no property beyond those of the last  *)
(* setSessionMeta call                                                     *)
C33_HoldsForOneKeySet ==
    [][(analytics.registered \subseteq analytics.sessionMetaKeys /\ analytics'.sinceClear # "none")
            => /\ analytics'.registered = {}
               /\ analytics'.sessionMeta = {}
               /\ analytics'.sinceClear = "captured" => analytics'.lastProps = {}]_vars

(***************************************************************************)
(* The TestRunner and its plot: _renderCurrentPart, the observers it       *)
(* gives the Graph, the QuestionCard inputs and the Undo button.  The      *)
(* plot is the one of the variables mode, placedPoints, crosshairPos,      *)
(* overlay, pointEls and placedLine; runner.recorded[i] is                 *)
(* this.answers[id] of part i, runner.marks[i] the marks of its feedback,  *)
(* runner.shared the parts whose recorded answer is the very array         *)
(* this.graph.placedPoints, runner.final the marks of scoreTest once the   *)
(* test is finished.                                                       *)
(***************************************************************************)

PartTypes == {"mcq", "graph_plot", "graph_reading"}

(* the graphSpec of the scenarios: SpecBrief with each interactiveMode *)
RunSpecs == {[SpecBrief EXCEPT !.interactiveMode = m] : m \in {"none", "plot-points", "read"}}

(* a stored coordinate in thousandths *)
toThousandths(v) == (v * 1000) \div DataScale

(* the schemas of the parts: the plot part expects the point (10, 10) *)
SchemaRunPlot ==
    [type |-> "graph_points",
     expectedPoints |-> <<[x |-> 10000, y |-> 10000, toleranceX |-> [given |-> FALSE, v |-> 0],
                           toleranceY |-> [given |-> FALSE, v |-> 0]]>>]
SchemaRead == [type |-> "numeric_with_unit", correct |-> 10000, tolerance |-> 100,
               correctUnit |-> CorrectUnit]

(* a part of the flat list this.parts *)
runPart(type, scenario) ==
    [type |-> type, scenario |-> scenario,
     marks |-> IF type = "graph_plot" THEN 2 ELSE 1,
     methodMarks |-> <<>>,
     answerSchema |-> IF type = "mcq" THEN SchemaMCQ
                      ELSE IF type = "graph_plot" THEN SchemaRunPlot
                      ELSE SchemaRead]

(* the parts of a test: the first of type first, the others of type rest;  *)
(* the first k in one scenario, the others in the next                     *)
runParts(first, rest, k) ==
    [i \in 1..NumParts |-> runPart(IF i = 1 THEN first ELSE rest, IF i <= k THEN 1 ELSE 2)]

currentPart(r) == r.parts[r.currentIndex + 1]

(* graphMode of _renderCurrentPart *)
graphModeOf(type) ==
    IF type = "graph_plot" THEN "plot-points"
    ELSE IF type = "graph_reading" THEN "read"
    ELSE "view"

(* the answer as MarkingEngine gets it: plotted points in thousandths *)
asMarked(answer) ==
    IF answer.kind = "points"
    THEN pointsAnswer([i \in 1..Len(answer.points) |->
                          [x |-> toThousandths(answer.points[i].x),
                           y |-> toThousandths(answer.points[i].y)]])
    ELSE answer

(* markAnswer on the recorded answer of part i, with maxMarks and the      *)
(* clamp of _checkAnswer and scoreScenario                                 *)
scoreOf(r, i) ==
    clampToPart(markAnswer(asMarked(r.recorded[i]), r.parts[i + 1].answerSchema,
                           r.parts[i + 1].methodMarks),
                r.parts[i + 1]).marks

(* TestRunner.constructor up to its first _renderCurrentPart *)
RunnerOf(m, parts) ==
    [mode |-> m, currentIndex |-> 0, answers |-> {}, flags |-> {}, feedback |-> {},
     checkedParts |-> {}, timer |-> 0,
     parts |-> parts, scenarioId |-> parts[1].scenario,
     recorded |-> [i \in 0..(NumParts - 1) |-> NoAnswer],
     marks |-> [i \in 0..(NumParts - 1) |-> 0],
     shared |-> {}, stage |-> "active",
     final |-> [i \in 0..(NumParts - 1) |-> 0]]

RunInit ==
    /\ spec \in RunSpecs
    /\ \E m \in AppModes, first \in PartTypes, rest \in PartTypes, k \in {1, NumParts} :
         /\ runner = RunnerOf(m, runParts(first, rest, k))
         /\ mode = constructorMode(spec.interactiveMode, graphModeOf(first))
    /\ FreshGraph
    /\ app = [AppConstructed EXCEPT !.state = "active"]
    /\ timers = <<>>
    /\ analytics = NotLoaded
    /\ appLast = [ev |-> "start", from |-> "welcome", entered |-> TRUE,
                  did |-> "none", timer |-> 0, checkedHere |-> FALSE]
    /\ marking = NotMarked
    /\ area = NotRendered
    /\ mapper = NotMapped
    /\ ctor = Constructed

(* the onPointsChange and onValueRead given to the Graph, called with out: *)
(* onPointsChange records the list for the current part, and with it for   *)
(* every part whose answer is the array that was changed in place;         *)
(* onValueRead fills the number input of the card, if it has one, and its  *)
(* 'input' listener records {value, unit}                                  *)
observed(r, out, inPlace) ==
    IF out = <<>> THEN r
    ELSE IF out[1].cb = "onPointsChange"
    THEN LET same == (IF inPlace THEN r.shared ELSE {}) \cup {r.currentIndex}
         IN  [r EXCEPT !.recorded = [i \in DOMAIN @ |->
                                        IF i \in same THEN pointsAnswer(out[1].list) ELSE @[i]],
                       !.answers = @ \cup {r.currentIndex},
                       !.shared = same]
    ELSE IF currentPart(r).type \in {"mcq", "graph_plot"} THEN r
    ELSE [r EXCEPT !.recorded[r.currentIndex] =
                       typedAnswer(Number(toThousandths(out[1].pt.y)),
                                   IF @.kind = "typed" THEN @.unit ELSE ""),
                   !.answers = @ \cup {r.currentIndex},
                   !.shared = @ \ {r.currentIndex}]

(* _renderCurrentPart of the runner r: a new Graph when the scenario       *)
(* changes, else setMode when the mode differs; setPlacedPoints of the     *)
(* recorded answer on a graph_plot part that has one                       *)
RenderCurrentPart(r) ==
    LET pt == currentPart(r)
        needsGraph == r.scenarioId # pt.scenario
        graphMode == graphModeOf(pt.type)
        m == IF needsGraph THEN constructorMode(spec.interactiveMode, graphMode) ELSE graphMode
        rendered == needsGraph \/ mode # graphMode
        restore == pt.type = "graph_plot" /\ r.currentIndex \in r.answers
        store == IF restore /\ r.recorded[r.currentIndex].kind = "points"
                 THEN getPlacedPoints(r.recorded[r.currentIndex].points)
                 ELSE IF needsGraph THEN <<>>
                 ELSE placedPoints
    IN  /\ mode' = m
        /\ placedPoints' = store
        /\ crosshairPos' = IF needsGraph THEN NoPoint ELSE crosshairPos
        /\ overlay' = IF rendered THEN m # "view" ELSE overlay
        /\ stale' = IF rendered THEN clearContainer(stale \cup listening) ELSE stale
        /\ pointEls' = IF restore \/ rendered THEN store ELSE pointEls
        /\ placedLine' = IF restore THEN refreshPlacedLine(store).line
                         ELSE IF rendered THEN <<>>
                         ELSE placedLine
        /\ runner' = [r EXCEPT !.scenarioId = pt.scenario,
                               !.shared = IF needsGraph \/ restore THEN {} ELSE @]

(* overlay 'mousemove' listener *)
RunMove(s) ==
    /\ runner.stage = "active"
    /\ overlay
    /\ onOverlay(s)
    /\ crosshairPos' = showCrosshair(s.x, s.y)
    /\ UNCHANGED <<mode, placedPoints, overlay, pointEls, spec, onPointsChange, onValueRead,
                 additions, last, stale, placedLine, area, mapper, ctor,
                 app, runner, timers, appLast, marking, analytics>>

(* overlay 'click' listener, with the runner's observers *)
RunClick ==
    /\ runner.stage = "active"
    /\ overlay
    /\ LET eff == clickCommit(placedPoints, crosshairPos, mode, onPointsChange, onValueRead)
       IN  /\ Len(eff.store) <= MaxPoints
           /\ Apply(eff)
           /\ runner' = observed(runner, eff.out, eff.added)
    /\ UNCHANGED <<mode, crosshairPos, overlay, spec, onPointsChange, onValueRead,
                 additions, last, stale, area, mapper, ctor,
                 app, timers, appLast, marking, analytics>>

(* 'click' listener of the i-th plotted-point marker, with the runner's    *)
(* observers                                                               *)
RunPointClick(i) ==
    /\ runner.stage = "active"
    /\ i \in 1..Len(pointEls)
    /\ LET eff == Effect(removePoint(placedPoints, pointEls[i]),
                         notifyPoints(onPointsChange, removePoint(placedPoints, pointEls[i])),
                         pointEls[i], FALSE, TRUE)
       IN  /\ Apply(eff)
           /\ runner' = observed(runner, eff.out, FALSE)
    /\ UNCHANGED <<mode, crosshairPos, overlay, spec, onPointsChange, onValueRead,
                 additions, last, stale, area, mapper, ctor,
                 app, timers, appLast, marking, analytics>>

(* 'click' listener of the Undo button, which the card of a graph_plot     *)
(* part has until the part has feedback                                    *)
RunUndo ==
    /\ runner.stage = "active"
    /\ currentPart(runner).type = "graph_plot"
    /\ runner.currentIndex \notin runner.feedback
    /\ Len(placedPoints) > 0
    /\ LET eff == Effect(pop(placedPoints), notifyPoints(onPointsChange, pop(placedPoints)),
                         NoPoint, FALSE, TRUE)
       IN  /\ Apply(eff)
           /\ runner' = observed(runner, eff.out, TRUE)
    /\ UNCHANGED <<mode, crosshairPos, overlay, spec, onPointsChange, onValueRead,
                 additions, last, stale, area, mapper, ctor,
                 app, timers, appLast, marking, analytics>>

(* QuestionCard: 'click' on an option, 'input' on the number field; none   *)
(* once the part has feedback, none on a graph_plot part                   *)
RunAnswer(answer) ==
    /\ runner.stage = "active"
    /\ runner.currentIndex \notin runner.feedback
    /\ \/ currentPart(runner).type = "mcq" /\ answer.kind = "option"
       \/ currentPart(runner).type = "graph_reading" /\ answer.kind = "typed"
    /\ runner' = [runner EXCEPT !.recorded[runner.currentIndex] = answer,
                                !.answers = @ \cup {runner.currentIndex},
                                !.shared = @ \ {runner.currentIndex}]
    /\ UNCHANGED <<graphVars, spec, area, mapper, ctor, app, timers, appLast, marking, analytics>>

(* 'click' on the Next button: _handleNext with _checkAnswer, _navigate,   *)
(* onReview and _finishTest with the scoreTest of the results screen       *)
RunNext ==
    /\ runner.stage = "active"
    /\ LET did == handleNext(runner)
       IN  IF did = "check"
           THEN RenderCurrentPart(
                    [runner EXCEPT !.feedback = @ \cup {runner.currentIndex},
                                   !.checkedParts = @ \cup {runner.currentIndex},
                                   !.marks[runner.currentIndex] =
                                       scoreOf(runner, runner.currentIndex)])
           ELSE IF did = "navigate"
           THEN RenderCurrentPart([runner EXCEPT !.currentIndex = @ + 1])
           ELSE /\ runner' =
                     IF did = "finish"
                     THEN [runner EXCEPT !.stage = "finished",
                                         !.final = [i \in DOMAIN @ |-> scoreOf(runner, i)]]
                     ELSE [runner EXCEPT !.stage = "review"]
                /\ UNCHANGED <<mode, placedPoints, crosshairPos, overlay, pointEls, stale,
                               placedLine>>
    /\ UNCHANGED <<spec, onPointsChange, onValueRead, additions, last, area, mapper, ctor,
                 app, timers, appLast, marking, analytics>>

(* 'click' on the Previous button: _navigate(-1) *)
RunPrevious ==
    /\ runner.stage = "active"
    /\ canNavigate(runner, -1)
    /\ RenderCurrentPart([runner EXCEPT !.currentIndex = @ - 1])
    /\ UNCHANGED <<spec, onPointsChange, onValueRead, additions, last, area, mapper, ctor,
                 app, timers, appLast, marking, analytics>>

(* Pointer positions: over the data points (10, 10) and (20, 0) *)
RunPositions == {toPixel(10 * DataScale, 10 * DataScale), toPixel(20 * DataScale, 0)}

(* what the student picks or types *)
RunAnswers == {optionAnswer("B"), typedAnswer(Number(10000), CorrectUnit)}

RunSteps ==
    \/ \E s \in RunPositions : RunMove(s)
    \/ RunClick
    \/ \E i \in 1..MaxPoints : RunPointClick(i)
    \/ RunUndo
    \/ \E answer \in RunAnswers : RunAnswer(answer)
    \/ RunNext
    \/ RunPrevious

SpecRun == RunInit /\ [][RunSteps]_vars

(* C38: after every render of the current part the plot's mode is the one  *)
(* of the part's type: plot-points for graph_plot, read for graph_reading, *)
(* view otherwise, the first part of a scenario included whatever          *)
(* interactiveMode its graph spec names.                                   *)
C38_ModeFollowsPartType ==
    runner.stage = "active" => mode = graphModeOf(currentPart(runner).type)

(* the same for graph specs that name no interactiveMode *)
C38_HoldsWithoutInteractiveMode ==
    spec.interactiveMode = "none" => C38_ModeFollowsPartType

(* C39: the recorded answer of a part that is not a graph_plot part is     *)
(* never a list of plotted points, whatever the navigation, mode switches  *)
(* and pointer events.                                                     *)
C39_PointsOnlyForPlotParts ==
    \A i \in 0..(NumParts - 1) :
        runner.parts[i + 1].type # "graph_plot" => runner.recorded[i].kind # "points"

(* the same while the plot shows no marker outside plot-points mode *)
C39_HoldsWithoutMarkersOutsidePlotMode ==
    [][(mode = "plot-points" => currentPart(runner).type = "graph_plot")
        /\ (pointEls # <<>> => mode = "plot-points")
            => \A i \in 0..(NumParts - 1) :
                  runner'.parts[i + 1].type # "graph_plot"
                      => (runner'.recorded[i].kind = "points" => runner.recorded[i].kind = "points")]_vars

(* C40: whenever the current part is a graph_plot part, the answer         *)
(* recorded for it is the plot's placed-point store in content and order,  *)
(* or there is no answer and the store is empty.                           *)
C40_AnswerIsTheStore ==
    (runner.stage = "active" /\ currentPart(runner).type = "graph_plot")
        => \/ runner.recorded[runner.currentIndex] = pointsAnswer(placedPoints)
           \/ runner.recorded[runner.currentIndex] = NoAnswer /\ placedPoints = <<>>

(* the same for tests with at most one graph_plot part to a scenario and   *)
(* no interactiveMode in the graph spec                                    *)
C40_HoldsForOnePlotPartAScenario ==
    (/\ spec.interactiveMode = "none"
     /\ \A i \in 1..NumParts, j \in 1..NumParts :
           (/\ i # j
            /\ runner.parts[i].type = "graph_plot"
            /\ runner.parts[j].scenario = runner.parts[i].scenario)
               => runner.parts[j].type # "graph_plot")
        => C40_AnswerIsTheStore

(* C36: in practice mode the marks a checked part contributes to the final *)
(* score are the marks shown in its feedback.                              *)
C36_FinalMarksAreFeedbackMarks ==
    runner.stage = "finished"
        => \A i \in runner.checkedParts : runner.final[i] = runner.marks[i]

(* the same for the parts answered through the question card alone *)
C36_HoldsForOptionParts ==
    runner.stage = "finished"
        => \A i \in runner.checkedParts :
              runner.parts[i + 1].type = "mcq" /\ runner.recorded[i].kind # "points"
                  => runner.final[i] = runner.marks[i]

====
